---------------------------- MODULE Spec2Model ----------------------------
(***************************************************************************)
(* Finance_PPT_Maker: the topic classifier (_parse_topic), the index       *)
(* analysis with its retries and synthesized fallback (_analyze_index),    *)
(* and the slide content assembly (generate_presentation_content).         *)
(*                                                                         *)
(* Text is modelled as TLA+ strings; money as integer cents; percentages   *)
(* as integer hundredths of a percent.                                     *)
(***************************************************************************)
EXTENDS Integers, Sequences, FiniteSets, TLC

(***************************************************************************)
(* String primitives of the Python runtime that the code relies on.        *)
(***************************************************************************)

\* str.lower() on ASCII letters
LowerChar(c) ==
  CASE c = "A" -> "a" [] c = "B" -> "b" [] c = "C" -> "c" [] c = "D" -> "d"
    [] c = "E" -> "e" [] c = "F" -> "f" [] c = "G" -> "g" [] c = "H" -> "h"
    [] c = "I" -> "i" [] c = "J" -> "j" [] c = "K" -> "k" [] c = "L" -> "l"
    [] c = "M" -> "m" [] c = "N" -> "n" [] c = "O" -> "o" [] c = "P" -> "p"
    [] c = "Q" -> "q" [] c = "R" -> "r" [] c = "S" -> "s" [] c = "T" -> "t"
    [] c = "U" -> "u" [] c = "V" -> "v" [] c = "W" -> "w" [] c = "X" -> "x"
    [] c = "Y" -> "y" [] c = "Z" -> "z" [] OTHER -> c

RECURSIVE Lower(_)
Lower(s) ==
  IF Len(s) = 0 THEN ""
  ELSE IF Len(s) = 1 THEN LowerChar(s)
  ELSE LET m == Len(s) \div 2
       IN  Lower(SubSeq(s, 1, m)) \o Lower(SubSeq(s, m + 1, Len(s)))

\* the Python test `k in t` on strings
Contains(t, k) ==
  \E i \in 1..(Len(t) - Len(k) + 1) : SubSeq(t, i, i + Len(k) - 1) = k

\* str.replace(old, new): left to right, non-overlapping
RECURSIVE Replace(_, _, _)
Replace(s, old, new) ==
  IF Len(s) < Len(old) THEN s
  ELSE IF SubSeq(s, 1, Len(old)) = old
       THEN new \o Replace(SubSeq(s, Len(old) + 1, Len(s)), old, new)
       ELSE SubSeq(s, 1, 1) \o Replace(SubSeq(s, 2, Len(s)), old, new)

CharAt(s, i) == IF i >= 1 /\ i <= Len(s) THEN SubSeq(s, i, i) ELSE ""

\* the regular-expression classes \s and \d
IsSpace(c) == c \in {" ", "\t", "\n", "\r", "\f"}

IsDigit(c) == c \in {"0", "1", "2", "3", "4", "5", "6", "7", "8", "9"}

DigitVal(c) ==
  CASE c = "0" -> 0 [] c = "1" -> 1 [] c = "2" -> 2 [] c = "3" -> 3
    [] c = "4" -> 4 [] c = "5" -> 5 [] c = "6" -> 6 [] c = "7" -> 7
    [] c = "8" -> 8 [] c = "9" -> 9

\* int() of a string of decimal digits
RECURSIVE ParseInt(_)
ParseInt(s) ==
  IF Len(s) = 0 THEN 0
  ELSE ParseInt(SubSeq(s, 1, Len(s) - 1)) * 10 + DigitVal(SubSeq(s, Len(s), Len(s)))

\* end of the maximal run of characters of one class that starts at position i
RECURSIVE SkipSpaces(_, _)
SkipSpaces(t, i) == IF IsSpace(CharAt(t, i)) THEN SkipSpaces(t, i + 1) ELSE i

RECURSIVE SkipDigits(_, _)
SkipDigits(t, i) == IF IsDigit(CharAt(t, i)) THEN SkipDigits(t, i + 1) ELSE i

Min(a, b) == IF a <= b THEN a ELSE b

\* the least element of a set of positions, 0 when there is none
FirstOf(S) == IF S = {} THEN 0 ELSE CHOOSE i \in S : \A j \in S : i <= j

(***************************************************************************)
(* The vocabularies of MarketDataService, in source (dict/list) order.     *)
(***************************************************************************)

market_symbols ==
  <<
    <<"nifty_50", "^NSEI">>, <<"nifty_bank", "^NSEBANK">>, <<"sensex", "^BSESN">>,
    <<"nifty_it", "^CNXIT">>, <<"nifty_pharma", "^CNXPHARMA">>, <<"nifty_auto", "^CNXAUTO">>,
    <<"nifty_fmcg", "^CNXFMCG">>, <<"nifty_metal", "^CNXMETAL">>, <<"nifty_realty", "^CNXREALTY">>,
    <<"nifty_energy", "^CNXENERGY">>, <<"sp_500", "^GSPC">>, <<"nasdaq", "^IXIC">>,
    <<"dow_jones", "^DJI">>, <<"ftse_100", "^FTSE">>, <<"dax", "^GDAXI">>,
    <<"nikkei", "^N225">>, <<"hang_seng", "^HSI">>, <<"shanghai", "000001.SS">>,
    <<"asx_200", "^AXJO">>, <<"tsx", "^GSPTSE">>, <<"gold", "GC=F">>,
    <<"silver", "SI=F">>, <<"crude_oil", "CL=F">>, <<"natural_gas", "NG=F">>,
    <<"copper", "HG=F">>, <<"usd_inr", "USDINR=X">>, <<"eur_usd", "EURUSD=X">>,
    <<"gbp_usd", "GBPUSD=X">>, <<"jpy_usd", "JPYUSD=X">>, <<"bitcoin", "BTC-USD">>,
    <<"ethereum", "ETH-USD">>, <<"binance_coin", "BNB-USD">> >>

finance_keywords ==
  <<
    "financial", "stock", "market", "analysis", "investment", "budget",
    "revenue", "profit", "cash flow", "balance sheet", "nifty", "sensex",
    "sp500", "nasdaq", "gold", "oil", "sector", "banking",
    "technology", "pharma", "esg", "ai investing", "q1", "q2",
    "q3", "q4", "earnings", "valuation", "risk", "trend",
    "forecast" >>

extra_finance_keywords ==
  <<
    "quarterly", "q1", "q2", "q3", "q4", "earnings",
    "valuation", "dividend", "portfolio", "asset", "bond", "etf",
    "mutual fund", "ipo", "merger", "acquisition", "esg", "sustainable",
    "crypto", "blockchain", "fintech" >>

sector_keywords ==
  <<
    <<"banking", <<"bank", "financial services", "finance", "banking sector">> >>,
    <<"technology", <<"tech", "it", "software", "ai", "artificial intelligence", "tech sector">> >>,
    <<"pharma", <<"pharma", "healthcare", "medical", "biotech", "pharma sector">> >>,
    <<"auto", <<"auto", "automotive", "car", "vehicle", "auto sector">> >>,
    <<"energy", <<"energy", "oil", "gas", "renewable", "solar", "wind", "energy sector">> >>,
    <<"fmcg", <<"fmcg", "consumer goods", "retail", "consumer", "fmcg sector">> >>,
    <<"metals", <<"metal", "steel", "mining", "commodity", "metals sector">> >>,
    <<"realty", <<"real estate", "realty", "property", "housing", "realty sector">> >> >>

stock_indicators ==
  <<
    "stock", "company", "equity", "share", "investment" >>

stock_databases ==
  <<
    <<"RELIANCE.NS", "indian_stocks">>, <<"TCS.NS", "indian_stocks">>, <<"HDFCBANK.NS", "indian_stocks">>, <<"INFY.NS", "indian_stocks">>,
    <<"HINDUNILVR.NS", "indian_stocks">>, <<"ICICIBANK.NS", "indian_stocks">>, <<"KOTAKBANK.NS", "indian_stocks">>, <<"BHARTIARTL.NS", "indian_stocks">>,
    <<"ITC.NS", "indian_stocks">>, <<"SBIN.NS", "indian_stocks">>, <<"BAJFINANCE.NS", "indian_stocks">>, <<"ASIANPAINT.NS", "indian_stocks">>,
    <<"MARUTI.NS", "indian_stocks">>, <<"HCLTECH.NS", "indian_stocks">>, <<"AXISBANK.NS", "indian_stocks">>, <<"LT.NS", "indian_stocks">>,
    <<"DMART.NS", "indian_stocks">>, <<"SUNPHARMA.NS", "indian_stocks">>, <<"TITAN.NS", "indian_stocks">>, <<"ULTRACEMCO.NS", "indian_stocks">>,
    <<"HDFCBANK.NS", "indian_stocks">>, <<"ICICIBANK.NS", "indian_stocks">>, <<"KOTAKBANK.NS", "indian_stocks">>, <<"SBIN.NS", "indian_stocks">>,
    <<"AXISBANK.NS", "indian_stocks">>, <<"INDUSINDBK.NS", "indian_stocks">>, <<"TCS.NS", "indian_stocks">>, <<"INFY.NS", "indian_stocks">>,
    <<"HCLTECH.NS", "indian_stocks">>, <<"WIPRO.NS", "indian_stocks">>, <<"TECHM.NS", "indian_stocks">>, <<"LTIM.NS", "indian_stocks">>,
    <<"SUNPHARMA.NS", "indian_stocks">>, <<"CIPLA.NS", "indian_stocks">>, <<"DRREDDY.NS", "indian_stocks">>, <<"DIVISLAB.NS", "indian_stocks">>,
    <<"APOLLOHOSP.NS", "indian_stocks">>, <<"MARUTI.NS", "indian_stocks">>, <<"TATAMOTORS.NS", "indian_stocks">>, <<"EICHERMOT.NS", "indian_stocks">>,
    <<"HEROMOTOCO.NS", "indian_stocks">>, <<"BAJAJ-AUTO.NS", "indian_stocks">>, <<"HINDUNILVR.NS", "indian_stocks">>, <<"ITC.NS", "indian_stocks">>,
    <<"NESTLEIND.NS", "indian_stocks">>, <<"BRITANNIA.NS", "indian_stocks">>, <<"TATACONSUM.NS", "indian_stocks">>, <<"AAPL", "us_stocks">>,
    <<"MSFT", "us_stocks">>, <<"GOOGL", "us_stocks">>, <<"AMZN", "us_stocks">>, <<"NVDA", "us_stocks">>,
    <<"TSLA", "us_stocks">>, <<"META", "us_stocks">>, <<"BRK-B", "us_stocks">>, <<"AAPL", "us_stocks">>,
    <<"MSFT", "us_stocks">>, <<"GOOGL", "us_stocks">>, <<"NVDA", "us_stocks">>, <<"META", "us_stocks">>,
    <<"NFLX", "us_stocks">>, <<"ADBE", "us_stocks">>, <<"CRM", "us_stocks">>, <<"ORCL", "us_stocks">>,
    <<"IBM", "us_stocks">>, <<"JPM", "us_stocks">>, <<"BAC", "us_stocks">>, <<"WFC", "us_stocks">>,
    <<"GS", "us_stocks">>, <<"MS", "us_stocks">>, <<"C", "us_stocks">>, <<"AXP", "us_stocks">>,
    <<"BLK", "us_stocks">>, <<"SCHW", "us_stocks">>, <<"JNJ", "us_stocks">>, <<"PFE", "us_stocks">>,
    <<"UNH", "us_stocks">>, <<"ABBV", "us_stocks">>, <<"MRK", "us_stocks">>, <<"TMO", "us_stocks">>,
    <<"ABT", "us_stocks">>, <<"LLY", "us_stocks">>, <<"AMZN", "us_stocks">>, <<"TSLA", "us_stocks">>,
    <<"HD", "us_stocks">>, <<"MCD", "us_stocks">>, <<"NKE", "us_stocks">>, <<"SBUX", "us_stocks">>,
    <<"TGT", "us_stocks">>, <<"WMT", "us_stocks">>, <<"ASML", "global_stocks">>, <<"SAP", "global_stocks">>,
    <<"LVMH.PA", "global_stocks">>, <<"NVO", "global_stocks">>, <<"NESN.SW", "global_stocks">>, <<"ROG.SW", "global_stocks">>,
    <<"MC.PA", "global_stocks">>, <<"TSM", "global_stocks">>, <<"BABA", "global_stocks">>, <<"TCEHY", "global_stocks">>,
    <<"005930.KS", "global_stocks">>, <<"6758.T", "global_stocks">>, <<"7203.T", "global_stocks">> >>

commodity_keywords ==
  <<
    "gold", "silver", "oil", "crude", "copper", "natural gas",
    "commodity" >>

sector_themes ==
  <<
    <<"esg_investing", <<"renewable energy", "sustainable", "green", "clean">> >>,
    <<"artificial_intelligence", <<"ai", "machine learning", "automation", "robotics">> >>,
    <<"fintech", <<"digital payments", "blockchain", "cryptocurrency", "neobank">> >>,
    <<"healthcare_innovation", <<"biotech", "pharmaceuticals", "medical devices", "telemedicine">> >>,
    <<"renewable_energy", <<"solar", "wind", "electric vehicle", "battery", "clean energy">> >>,
    <<"cybersecurity", <<"security", "cyber", "data protection", "privacy">> >>,
    <<"cloud_computing", <<"cloud", "saas", "software", "data center">> >>,
    <<"e_commerce", <<"online retail", "marketplace", "digital commerce", "logistics">> >> >>

alternative_symbols ==
  <<
    <<"^NSEI", <<"NIFTY50.NS", "^NSEBANK", "^CNXIT">> >>,
    <<"^GSPC", <<"SPY", "QQQ", "VOO">> >>,
    <<"^DJI", <<"DIA", "UDOW">> >>,
    <<"^IXIC", <<"QQQ", "TQQQ">> >>,
    <<"^FTSE", <<"^FTSE", "VUKE.L">> >>,
    <<"^GDAXI", <<"^GDAXI", "EXS1.DE">> >>,
    <<"^N225", <<"^N225", "EWJ">> >>,
    <<"^HSI", <<"^HSI", "FXI">> >>,
    <<"^BSESN", <<"^BSESN", "^CNXIT">> >>,
    <<"^CNXIT", <<"^CNXIT", "^NSEI">> >>,
    <<"^NSEBANK", <<"^NSEBANK", "^NSEI">> >> >>

\* self.finance_keywords + [...] of _parse_topic
expanded_finance_keywords == finance_keywords \o extra_finance_keywords

\* key.replace("_", " ") for every key of market_symbols
market_symbol_names ==
  [i \in 1..Len(market_symbols) |-> Replace(market_symbols[i][1], "_", " ")]

\* the keys the commodity check of _parse_topic accepts
commodity_keys == {"gold", "silver", "crude_oil", "copper", "natural_gas"}

\* symbol.replace(".NS", "").replace("-", " ").lower() and symbol.lower()
stock_names ==
  [i \in 1..Len(stock_databases) |->
     [company_name |-> Lower(Replace(Replace(stock_databases[i][1], ".NS", ""), "-", " ")),
      symbol_lower |-> Lower(stock_databases[i][1])]]

DefaultYears == 3

MaxYears == 10

(***************************************************************************)
(* MarketDataService._parse_topic                                          *)
(***************************************************************************)

\* any(keyword in topic_lower for keyword in keywords)
AnyKeywordIn(keywords, topic_lower) ==
  \E i \in 1..Len(keywords) : Contains(topic_lower, keywords[i])

\* the finance-only validation of _parse_topic, without the keywords it adds locally
FinanceGateBaseOnly(topic_lower) == AnyKeywordIn(finance_keywords, topic_lower)

\* the finance-only validation of _parse_topic
FinanceGate(topic_lower) == AnyKeywordIn(expanded_finance_keywords, topic_lower)

\* whether r'(?:last|over|past)\s+(\d+)\s+(year|years?)(?:\s|$)' matches at position i
YearsMatchAt(t, i) ==
  LET d1 == SkipSpaces(t, i + 4)
      d2 == SkipDigits(t, d1)
      y  == SkipSpaces(t, d2)
      e  == y + 4
  IN  /\ i + 3 <= Len(t)
      /\ SubSeq(t, i, i + 3) \in {"last", "over", "past"}
      /\ d1 > i + 4
      /\ d2 > d1
      /\ y > d2
      /\ y + 3 <= Len(t)
      /\ SubSeq(t, y, y + 3) = "year"
      /\ \/ e > Len(t)
         \/ IsSpace(CharAt(t, e))
         \/ /\ CharAt(t, e) = "s"
            /\ (e + 1 > Len(t) \/ IsSpace(CharAt(t, e + 1)))

\* re.search: the leftmost match, 0 when there is none
YearsMatch(t) == FirstOf({i \in 1..Len(t) : YearsMatchAt(t, i)})

\* group(1) of the match at position i
YearsGroup(t, i) ==
  LET d1 == SkipSpaces(t, i + 4) IN SubSeq(t, d1, SkipDigits(t, d1) - 1)

\* years = int(group(1)) if years_match else 3; years = min(years, 10)
ExtractYears(topic_lower) ==
  LET m == YearsMatch(topic_lower)
      years == IF m # 0 THEN ParseInt(YearsGroup(topic_lower, m)) ELSE DefaultYears
  IN  Min(years, MaxYears)

\* position in market_symbols of the first key found in the topic, 0 when none
FirstIndexKey(topic_lower) ==
  FirstOf({i \in 1..Len(market_symbols) :
             \/ Contains(topic_lower, market_symbol_names[i])
             \/ Contains(topic_lower, market_symbols[i][1])})

\* position in sector_keywords of the first sector with a keyword in the topic
FirstSector(topic_lower) ==
  FirstOf({i \in 1..Len(sector_keywords) :
             AnyKeywordIn(sector_keywords[i][2], topic_lower)})

\* position in stock_databases of the first stock named in the topic
FirstStock(topic_lower) ==
  FirstOf({i \in 1..Len(stock_databases) :
             \/ Contains(topic_lower, stock_names[i].company_name)
             \/ Contains(topic_lower, stock_names[i].symbol_lower)})

\* position in market_symbols of the first commodity key named in the topic
FirstCommodity(topic_lower) ==
  FirstOf({i \in 1..Len(market_symbols) :
             /\ market_symbols[i][1] \in commodity_keys
             /\ Contains(topic_lower, market_symbol_names[i])})

\* position in sector_themes of the first theme with a keyword in the topic
FirstTheme(topic_lower) ==
  FirstOf({i \in 1..Len(sector_themes) :
             AnyKeywordIn(sector_themes[i][2], topic_lower)})

\* lines 199-205: the theme check and the default
ClassifyTheme(topic, topic_lower, years) ==
  LET t == FirstTheme(topic_lower)
  IN  IF t # 0
      THEN [type |-> "theme", theme |-> sector_themes[t][1],
            keywords |-> sector_themes[t][2], years |-> years]
      ELSE [type |-> "general", topic |-> topic, years |-> years]

\* lines 191-197: the commodity check
ClassifyCommodity(topic, topic_lower, years) ==
  LET c == IF AnyKeywordIn(commodity_keywords, topic_lower)
           THEN FirstCommodity(topic_lower) ELSE 0
  IN  IF c # 0
      THEN [type |-> "commodity", symbol |-> market_symbols[c][2],
            name |-> market_symbols[c][1], years |-> years]
      ELSE ClassifyTheme(topic, topic_lower, years)

\* lines 180-189: the individual stock check
ClassifyStock(topic, topic_lower, years) ==
  LET s == IF AnyKeywordIn(stock_indicators, topic_lower)
           THEN FirstStock(topic_lower) ELSE 0
  IN  IF s # 0
      THEN [type |-> "stock", symbol |-> stock_databases[s][1],
            market |-> stock_databases[s][2], years |-> years]
      ELSE ClassifyCommodity(topic, topic_lower, years)

\* lines 164-178: the sector check
ClassifySector(topic, topic_lower, years) ==
  LET s == FirstSector(topic_lower)
  IN  IF s # 0
      THEN [type |-> "sector", sector |-> sector_keywords[s][1],
            keywords |-> sector_keywords[s][2], years |-> years]
      ELSE ClassifyStock(topic, topic_lower, years)

\* the checks with the sector check moved in front of the index check
ClassifySectorFirst(topic, topic_lower, years) ==
  LET s == FirstSector(topic_lower)
      k == FirstIndexKey(topic_lower)
  IN  IF s # 0
      THEN [type |-> "sector", sector |-> sector_keywords[s][1],
            keywords |-> sector_keywords[s][2], years |-> years]
      ELSE IF k # 0
      THEN [type |-> "index", symbol |-> market_symbols[k][2],
            name |-> market_symbols[k][1], years |-> years]
      ELSE ClassifyStock(topic, topic_lower, years)

\* lines 159-162: the index check, then the later checks
ClassifyIndex(topic, topic_lower, years) ==
  LET k == FirstIndexKey(topic_lower)
  IN  IF k # 0
      THEN [type |-> "index", symbol |-> market_symbols[k][2],
            name |-> market_symbols[k][1], years |-> years]
      ELSE ClassifySector(topic, topic_lower, years)

InvalidReason ==
  "Topic must be finance-related (e.g., stocks, markets, investments, financial analysis)"

ParseTopic(topic) ==
  LET topic_lower == Lower(topic)
  IN  IF ~FinanceGate(topic_lower)
      THEN [type |-> "invalid", reason |-> InvalidReason]
      ELSE ClassifyIndex(topic, topic_lower, ExtractYears(topic_lower))

\* the routine get_comprehensive_analysis dispatches a classification to
AnalysisRoutine(analysis_type) ==
  CASE analysis_type.type = "index"     -> "_analyze_index"
    [] analysis_type.type = "sector"    -> "_analyze_sector"
    [] analysis_type.type = "stock"     -> "_analyze_individual_stock"
    [] analysis_type.type = "commodity" -> "_analyze_commodity"
    [] analysis_type.type = "theme"     -> "_analyze_investment_theme"
    [] OTHER                            -> "_analyze_general_market"

(***************************************************************************)
(* MarketDataService._analyze_index and its helpers.                       *)
(* Prices the provider returns are in thousandths of a currency unit,      *)
(* rounded prices in cents, percentages in hundredths of a percent,        *)
(* delays in milliseconds.                                                 *)
(***************************************************************************)

\* the methods class MarketDataService defines (an attribute lookup of any
\* other name on the instance raises AttributeError)
MarketDataServiceMethods ==
  {
   "__init__", "get_comprehensive_analysis", "_parse_topic",
   "_analyze_index", "_analyze_sector", "_analyze_individual_stock",
   "_analyze_commodity", "_analyze_investment_theme", "_analyze_general_market",
   "_calculate_current_metrics", "_calculate_historical_performance", "_calculate_comprehensive_risk_metrics",
   "_calculate_technical_indicators", "_calculate_rsi", "_calculate_sortino_ratio",
   "_get_stocks_for_sector", "_get_stocks_for_theme", "_compare_with_major_indices",
   "_generate_index_insights", "_generate_forecast_data", "_analyze_sector_trends",
   "_generate_sector_thesis", "_identify_sector_risks", "_identify_sector_opportunities",
   "_get_fallback_sector_analysis", "_get_fallback_stock_analysis", "_get_fallback_commodity_analysis",
   "_get_fallback_theme_analysis", "_get_fallback_general_analysis", "_get_fallback_current_metrics",
   "_get_fallback_historical_performance", "_get_fallback_risk_metrics", "_get_fallback_technical_indicators",
   "_get_fallback_market_comparison", "_get_fallback_index_insights", "_get_fallback_forecast_data",
   "_get_complete_fallback_index_analysis", "_get_fallback_sector_trends", "_get_fallback_sector_thesis",
   "_get_fallback_sector_risks", "_get_fallback_sector_opportunities", "_calculate_sharpe_ratio_from_returns",
   "_analyze_supply_demand_factors", "_analyze_seasonal_patterns", "_analyze_commodity_correlations",
   "_identify_macro_factors", "_calculate_commodity_metrics", "_calculate_theme_performance",
   "_analyze_theme_sectors", "_analyze_theme_trends", "_identify_theme_drivers",
   "_identify_theme_risks", "_generate_theme_strategy", "_generate_theme_outlook",
   "_generate_market_overview", "_identify_market_trends", "_analyze_economic_factors",
   "_suggest_investment_themes", "_assess_market_risks", "_generate_strategic_recommendations",
   "_calculate_stock_metrics", "_analyze_financial_health", "_calculate_valuation_metrics",
   "_compare_with_peers", "_analyze_growth_trends", "_analyze_dividend_history",
   "_assess_stock_risks", "_generate_stock_recommendation" }

max_retries == 2

TriedSymbolsPerRound == 2

MinDataPoints == 30

MinTechnicalRows == 50

HighQualityRows == 252

BaseDelayMs == 500

MaxSleepMs == 2000

\* round(n / d) to the nearest integer, ties to even, as Python's round
RoundDiv(n, d) ==
  LET q == n \div d
      r == n % d
  IN  IF 2 * r > d \/ (2 * r = d /\ q % 2 = 1) THEN q + 1 ELSE q

RECURSIVE Pow2(_)
Pow2(n) == IF n = 0 THEN 1 ELSE 2 * Pow2(n - 1)

\* alternative_symbols.get(symbol, [])
AlternativesOf(symbol) ==
  LET k == FirstOf({i \in 1..Len(alternative_symbols) : alternative_symbols[i][1] = symbol})
  IN  IF k = 0 THEN <<>> ELSE alternative_symbols[k][2]

\* symbols_to_try = [symbol] + alternative_symbols.get(symbol, [])
SymbolsToTry(symbol) == <<symbol>> \o AlternativesOf(symbol)

\* every symbol of the list in each round
AllSymbolsPerRound(symbol) == SymbolsToTry(symbol)

\* symbols_to_try[:2]
SymbolsPerRound(symbol) ==
  SubSeq(SymbolsToTry(symbol), 1, Min(TriedSymbolsPerRound, Len(SymbolsToTry(symbol))))

\* pd.DataFrame(): the empty price history
EmptyFrame == [rows |-> 0, base |-> <<100000>>, volume_nan |-> FALSE]

\* hist['Close'].iloc[i - 1]: the closes repeat the base pattern
Close(hist, i) == hist.base[((i - 1) % Len(hist.base)) + 1]

\* lines 239-246: the history the attempt works with
HistoryObtained(r) ==
  IF r.first.raises THEN EmptyFrame
  ELSE IF r.first.frame.rows = 0
       THEN IF r.second.raises THEN EmptyFrame ELSE r.second.frame
       ELSE r.first.frame

\* hist['Close'].pct_change(), in basis points
PctChange(hist, i) == ((Close(hist, i) - Close(hist, i - 1)) * 10000) \div Close(hist, i - 1)

\* the sum of f over the changes lo..hi of the series (the first change is
\* that of row 2), split in halves
RECURSIVE SumPctChange(_, _, _)
SumPctChange(hist, lo, hi) ==
  IF lo > hi THEN 0
  ELSE IF lo = hi THEN PctChange(hist, lo)
  ELSE LET mid == (lo + hi) \div 2
       IN  SumPctChange(hist, lo, mid) + SumPctChange(hist, mid + 1, hi)

RECURSIVE SumSquaredDev(_, _, _, _)
SumSquaredDev(hist, lo, hi, mean) ==
  IF lo > hi THEN 0
  ELSE IF lo = hi THEN (PctChange(hist, lo) - mean) * (PctChange(hist, lo) - mean)
  ELSE LET mid == (lo + hi) \div 2
       IN  SumSquaredDev(hist, lo, mid, mean) + SumSquaredDev(hist, mid + 1, hi, mean)

\* the integer square root of n, searched between lo and hi
RECURSIVE ISqrtBetween(_, _, _)
ISqrtBetween(n, lo, hi) ==
  IF lo >= hi THEN lo
  ELSE LET mid == (lo + hi + 1) \div 2
       IN  IF mid * mid <= n THEN ISqrtBetween(n, mid, hi) ELSE ISqrtBetween(n, lo, mid - 1)

\* round(hist['Close'].pct_change().std() * np.sqrt(252) * 100, 2)
Volatility(hist) ==
  LET m    == hist.rows - 1
      mean == SumPctChange(hist, 2, hist.rows) \div m
      var  == SumSquaredDev(hist, 2, hist.rows, mean) \div (m - 1)
  IN  ISqrtBetween(var * 252, 0, 46340)

\* _calculate_current_metrics
CalculateCurrentMetrics(hist) ==
  IF hist.rows = 0 THEN [empty |-> TRUE]
  ELSE [current_price |-> RoundDiv(Close(hist, hist.rows), 10),
        daily_change |->
          IF hist.rows > 1
          THEN RoundDiv((Close(hist, hist.rows) - Close(hist, hist.rows - 1)) * 10000,
                        Close(hist, hist.rows - 1))
          ELSE 0]

\* _calculate_comprehensive_risk_metrics
CalculateRiskMetrics(hist) ==
  IF hist.rows = 0 THEN [empty |-> TRUE]
  ELSE [volatility |-> Volatility(hist), max_drawdown |-> "AttributeError", beta |-> 100]

\* lines 263-282: the analysis built from a fetched history
IndexAnalysis(hist, sym, topic, years) ==
  [topic |-> topic,
   analysis_type |-> "Index Analysis",
   symbol |-> sym,
   current_price |-> RoundDiv(Close(hist, hist.rows), 10),
   total_return |-> RoundDiv((Close(hist, hist.rows) - Close(hist, 1)) * 10000, Close(hist, 1)),
   volatility |-> Volatility(hist),
   max_drawdown |-> "AttributeError",
   current_data |-> CalculateCurrentMetrics(hist),
   historical_performance |-> "computed",
   risk_metrics |-> CalculateRiskMetrics(hist),
   technical_indicators |-> IF hist.rows < MinTechnicalRows THEN "empty" ELSE "computed",
   market_comparison |-> "computed",
   key_insights |-> "computed",
   forecast_data |-> [forecasted_return |-> 0, forecasted_volatility |-> 0],
   period_analyzed |-> years,
   data_quality |-> IF hist.rows >= HighQualityRows THEN "high" ELSE "medium"]

NoAnalysis == [analysis_type |-> "none"]

AttemptFailed(why) == [returned |-> FALSE, error |-> why, analysis |-> NoAnalysis]

\* lines 234-288: one pass of the inner loop body for symbol sym, given what
\* the provider answers; an exception anywhere reaches `except Exception: continue`
TryOneSymbol(r, sym, topic, years) ==
  LET hist == HistoryObtained(r)
  IN  IF r.ticker_raises THEN AttemptFailed("Ticker")
      ELSE IF r.info_raises THEN AttemptFailed("info")
      ELSE IF ~(hist.rows > 0 /\ hist.rows >= MinDataPoints) THEN AttemptFailed("insufficient")
      ELSE IF hist.volume_nan THEN AttemptFailed("ValueError")
      ELSE IF "_calculate_max_drawdown" \notin MarketDataServiceMethods
           THEN AttemptFailed("AttributeError")
      ELSE [returned |-> TRUE, error |-> "none",
            analysis |-> IndexAnalysis(hist, sym, topic, years)]

\* a backoff after every round, the last one included
SleepsAfterEveryRound(a) == TRUE

\* line 291: if attempt < max_retries - 1
SleepsAfterRound(a) == a < max_retries - 1

\* line 292-293: min(base_delay * (2 ** attempt) + random.uniform(0, 0.5), 2)
BackoffDelay(attempt, jitter) == Min(BaseDelayMs * Pow2(attempt) + jitter, MaxSleepMs)

\* a handler that catches only the provider's own errors
HandlerCatchesProviderOnly(error) == error \in {"Ticker", "info"}

\* the exceptions `except Exception` of line 286 catches: all of them
HandlerCatches(error) == TRUE

\* draws that may exceed the upper end of the range
UniformBeyond(a, b) == {a, b, b + 1}

\* random.uniform(a, b): the extreme draws
Uniform(a, b) == {a, b}

\* a volatility drawn from a range that starts at zero
VolatilityDrawsFromZero == Uniform(0, 3500)

\* line 974: random.uniform(10, 35), in hundredths of a percent
VolatilityDraws == Uniform(1000, 3500)

\* the draws of _get_complete_fallback_index_analysis that the analysis below
\* depends on: prices in cents, factors in hundredths, percentages in hundredths
FallbackDraws ==
  [current_price : Uniform(100000, 5000000),
   high_factor   : Uniform(105, 125),
   low_factor    : Uniform(75, 95),
   volatility    : VolatilityDraws,
   max_drawdown  : Uniform(500, 4500),
   sma_20_factor : Uniform(95, 105) \cup {100},
   sma_50_factor : Uniform(90, 110),
   rsi           : Uniform(3000, 7000)]

\* a label that is bullish also when the price equals the average
TrendLabelAtLeast(current_price, sma_20) ==
  IF current_price >= sma_20 THEN "Bullish" ELSE "Bearish"

\* line 984: trend = "Bullish" if current_price > sma_20 else "Bearish"
TrendLabel(current_price, sma_20) ==
  IF current_price > sma_20 THEN "Bullish" ELSE "Bearish"

\* _get_complete_fallback_index_analysis; the draws no property reads are
\* fixed at one value of their range
FallbackIndexAnalysis(symbol, topic, years, d) ==
  LET current_price == d.current_price
      week_high == RoundDiv(current_price * d.high_factor, 100)
      week_low  == RoundDiv(current_price * d.low_factor, 100)
      sma_20    == RoundDiv(current_price * d.sma_20_factor, 100)
      sma_50    == RoundDiv(current_price * d.sma_50_factor, 100)
      trend     == TrendLabel(current_price, sma_20)
  IN  [topic |-> topic,
       analysis_type |-> "Index Analysis",
       symbol |-> symbol,
       current_data |->
         [current_price |-> current_price,
          daily_change |-> -250,
          volume |-> 100000,
          market_cap |-> 1000000000,
          week_52_high |-> week_high,
          week_52_low |-> week_low],
       historical_performance |-> "mock",
       risk_metrics |->
         [volatility |-> d.volatility,
          max_drawdown |-> d.max_drawdown,
          var_95 |-> -150,
          sharpe_ratio |-> -50,
          sortino_ratio |-> 0,
          beta |-> 80],
       technical_indicators |->
         [sma_20 |-> sma_20,
          sma_50 |-> sma_50,
          rsi |-> d.rsi,
          price_vs_sma_20 |-> RoundDiv((current_price - sma_20) * 1000, sma_20 \div 10),
          price_vs_sma_50 |-> RoundDiv((current_price - sma_50) * 1000, sma_50 \div 10),
          trend |-> trend],
       market_comparison |-> "mock",
       key_insights |-> "mock",
       forecast_data |-> [forecasted_return |-> -500, forecasted_volatility |-> 1200],
       period_analyzed |-> years]

\* what the provider may answer to one attempt
RowCounts == {0, MinDataPoints - 1, MinDataPoints, HighQualityRows}

ClosePatterns == {<<100000>>, <<100000, 101000, 99500>>}

Frames == [rows : RowCounts, base : ClosePatterns, volume_nan : BOOLEAN]

HistoryResponses ==
  {[raises |-> TRUE, frame |-> EmptyFrame]} \cup {[raises |-> FALSE, frame |-> f] : f \in Frames}

ProviderResponses ==
  [ticker_raises : BOOLEAN, first : HistoryResponses,
   second : HistoryResponses, info_raises : BOOLEAN]

(***************************************************************************)
(* SerpAPIService: the web search, the image search and the extraction of  *)
(* bullets from search results.                                            *)
(***************************************************************************)

\* str.upper() on ASCII letters
UpperChar(c) ==
  CASE c = "a" -> "A" [] c = "b" -> "B" [] c = "c" -> "C" [] c = "d" -> "D"
    [] c = "e" -> "E" [] c = "f" -> "F" [] c = "g" -> "G" [] c = "h" -> "H"
    [] c = "i" -> "I" [] c = "j" -> "J" [] c = "k" -> "K" [] c = "l" -> "L"
    [] c = "m" -> "M" [] c = "n" -> "N" [] c = "o" -> "O" [] c = "p" -> "P"
    [] c = "q" -> "Q" [] c = "r" -> "R" [] c = "s" -> "S" [] c = "t" -> "T"
    [] c = "u" -> "U" [] c = "v" -> "V" [] c = "w" -> "W" [] c = "x" -> "X"
    [] c = "y" -> "Y" [] c = "z" -> "Z" [] OTHER -> c

RECURSIVE Upper(_)
Upper(s) ==
  IF Len(s) = 0 THEN ""
  ELSE IF Len(s) = 1 THEN UpperChar(s)
  ELSE LET m == Len(s) \div 2
       IN  Upper(SubSeq(s, 1, m)) \o Upper(SubSeq(s, m + 1, Len(s)))

IsLetter(c) == c # "" /\ (LowerChar(c) # c \/ UpperChar(c) # c)

\* str.title(): a letter is upper-cased after a non-letter, lower-cased after a letter
RECURSIVE TitleBetween(_, _, _)
TitleBetween(s, lo, hi) ==
  IF lo > hi THEN ""
  ELSE IF lo = hi
  THEN IF IsLetter(CharAt(s, lo - 1)) THEN LowerChar(CharAt(s, lo)) ELSE UpperChar(CharAt(s, lo))
  ELSE LET m == (lo + hi) \div 2
       IN  TitleBetween(s, lo, m) \o TitleBetween(s, m + 1, hi)

Title(s) == TitleBetween(s, 1, Len(s))

\* str.startswith(p)
StartsWith(s, p) == Len(s) >= Len(p) /\ SubSeq(s, 1, Len(p)) = p

\* str.strip(): whitespace removed at both ends
RECURSIVE LStrip(_)
LStrip(s) == IF IsSpace(CharAt(s, 1)) THEN LStrip(SubSeq(s, 2, Len(s))) ELSE s

RECURSIVE RStrip(_)
RStrip(s) == IF IsSpace(CharAt(s, Len(s))) THEN RStrip(SubSeq(s, 1, Len(s) - 1)) ELSE s

Strip(s) == LStrip(RStrip(s))

\* str.split(sep) with a separator
RECURSIVE Split(_, _)
Split(s, sep) ==
  LET k == FirstOf({i \in 1..(Len(s) - Len(sep) + 1) : SubSeq(s, i, i + Len(sep) - 1) = sep})
  IN  IF k = 0 THEN <<s>>
      ELSE <<SubSeq(s, 1, k - 1)>> \o Split(SubSeq(s, k + Len(sep), Len(s)), sep)

\* str.split() without a separator: the maximal runs of non-whitespace
RECURSIVE SplitWords(_)
SplitWords(s) ==
  LET t == LStrip(s)
      e == FirstOf({i \in 1..Len(t) : i = Len(t) \/ IsSpace(CharAt(t, i + 1))})
  IN  IF Len(t) = 0 THEN <<>>
      ELSE <<SubSeq(t, 1, e)>> \o SplitWords(SubSeq(t, e + 1, Len(t)))

\* seq[:n] of Python, for any integer n
SliceThrough(s, n) ==
  SubSeq(s, 1, IF n >= 0 THEN Min(n + 1, Len(s)) ELSE Len(s) + n + 1)

SliceTo(s, n) ==
  SubSeq(s, 1, IF n >= 0 THEN Min(n, Len(s)) ELSE Len(s) + n)

\* dict.get(key, '')
Get(item, key) == IF key \in DOMAIN item THEN item[key] ELSE ""

\* the bullet character U+2022, written as one ASCII character
BulletMark == "*"

MinSentenceLength == 20

SnippetBulletLimit == 4

GenericBulletTarget == 3

SentencesPerSnippet == 2

ResultsScanned == 5

MaxBulletsReturned == 6

\* line 34
financial_keywords ==
  <<"financial", "analysis", "performance", "market", "stock", "nifty", "report">>

\* sum(1 for keyword in keywords if keyword in text)
Score(keywords, text) ==
  Cardinality({i \in 1..Len(keywords) : Contains(text, keywords[i])})

\* lines 39-49: the first two sentences of a snippet, added to bullets
RECURSIVE TakeSentences(_, _, _)
TakeSentences(bullets, sentences, j) ==
  IF j > Min(SentencesPerSnippet, Len(sentences)) THEN bullets
  ELSE LET stripped == Strip(sentences[j])
           bullet   == IF StartsWith(stripped, BulletMark) THEN stripped
                       ELSE BulletMark \o " " \o stripped
       IN  IF Len(stripped) > MinSentenceLength
           THEN IF Len(bullets) + 1 >= SnippetBulletLimit
                THEN Append(bullets, bullet)
                ELSE TakeSentences(Append(bullets, bullet), sentences, j + 1)
           ELSE TakeSentences(bullets, sentences, j + 1)

\* lines 25-52: the loop over the top results
RECURSIVE ScanResults(_, _, _, _)
ScanResults(bullets, results, i, slide_keywords) ==
  IF i > Min(ResultsScanned, Len(results)) THEN bullets
  ELSE LET snippet == Get(results[i], "snippet")
           title   == Get(results[i], "title")
           combined_text   == Lower(snippet \o title)
           relevance_score == Score(slide_keywords, combined_text)
           financial_score == Score(financial_keywords, combined_text)
           b == IF relevance_score > 0 \/ financial_score > 1
                THEN TakeSentences(bullets, Split(snippet, ". "), 1)
                ELSE bullets
       IN  IF Len(b) >= SnippetBulletLimit THEN b
           ELSE ScanResults(b, results, i + 1, slide_keywords)

\* lines 55-64: generic bullets; the last branch leaves the loop after one
RECURSIVE AddGenericBullets(_, _)
AddGenericBullets(bullets, slide_title) ==
  LET t == Lower(slide_title)
  IN  IF Len(bullets) >= GenericBulletTarget THEN bullets
      ELSE IF Contains(t, "analysis")
      THEN AddGenericBullets(
             Append(bullets, BulletMark \o " Comprehensive " \o t \o " based on current market data"),
             slide_title)
      ELSE IF Contains(t, "performance")
      THEN AddGenericBullets(
             Append(bullets, BulletMark \o " Key performance indicators for " \o t), slide_title)
      ELSE IF Contains(t, "overview")
      THEN AddGenericBullets(
             Append(bullets, BulletMark \o " Strategic overview of " \o t), slide_title)
      ELSE Append(bullets, BulletMark \o " Industry insights for " \o t)

\* SerpAPIService.extract_bullet_points
extract_bullet_points(search_results, slide_title) ==
  LET results == IF "results" \in DOMAIN search_results THEN search_results.results ELSE <<>>
      slide_keywords == SplitWords(Lower(slide_title))
      bullets == ScanResults(<<>>, results, 1, slide_keywords)
  IN  SliceTo(AddGenericBullets(bullets, slide_title), MaxBulletsReturned)

\* does the request with this query end in an exception (connection error,
\* HTTP error status, invalid JSON) in world w
RequestRaises(w, q) == \E k \in w.fails_on : Contains(q, k)

\* lines 84-90: the organic results, each reduced to title, snippet and link
RECURSIVE NormalizeResults(_)
NormalizeResults(items) ==
  IF Len(items) = 0 THEN <<>>
  ELSE <<[title   |-> Get(items[1], "title"),
          snippet |-> Get(items[1], "snippet"),
          link    |-> Get(items[1], "link")]>> \o NormalizeResults(Tail(items))

\* SerpAPIService.search_financial_topic
search_financial_topic(w, topic, num_results) ==
  IF RequestRaises(w, topic \o " financial analysis") THEN [results |-> <<>>]
  ELSE IF "organic_results" \in DOMAIN w.data
       THEN [results |-> NormalizeResults(SliceTo(w.data.organic_results, num_results))]
       ELSE [results |-> <<>>]

RECURSIVE Originals(_)
Originals(images) ==
  IF Len(images) = 0 THEN <<>>
  ELSE <<Get(images[1], "original")>> \o Originals(Tail(images))

\* an image search without the exception handler's empty list
search_images_unguarded(w, query, num_results) ==
  IF "images_results" \in DOMAIN w.data
  THEN Originals(SliceTo(w.data.images_results, num_results))
  ELSE <<>>

\* SerpAPIService.search_images
search_images(w, query, num_results) ==
  IF RequestRaises(w, query) THEN <<>>
  ELSE IF "images_results" \in DOMAIN w.data
       THEN Originals(SliceTo(w.data.images_results, num_results))
       ELSE <<>>

(***************************************************************************)
(* FinancialContentGenerator.                                              *)
(***************************************************************************)

\* self.financial_templates, in source order
financial_templates ==
  << <<"quarterly_analysis",
       <<"Executive Summary & Key Highlights",
         "Financial Performance Overview",
         "Revenue Analysis & Growth Trends",
         "Profitability & Margin Analysis",
         "Cash Flow & Liquidity Position",
         "Balance Sheet Strength",
         "Market Position & Competitive Analysis",
         "Risk Assessment & Mitigation",
         "Strategic Initiatives & Outlook">> >>,
     <<"investment_proposal",
       <<"Investment Opportunity Overview",
         "Market Analysis & Size",
         "Financial Projections",
         "Revenue Model & Assumptions",
         "Competitive Landscape",
         "Risk Analysis & Mitigation",
         "Management Team & Execution",
         "Financial Requirements",
         "Expected Returns & Exit Strategy">> >>,
     <<"budget_planning",
       <<"Budget Overview & Objectives",
         "Revenue Forecasting",
         "Operating Expense Planning",
         "Capital Expenditure Analysis",
         "Cash Flow Projections",
         "Variance Analysis",
         "Scenario Planning",
         "Resource Allocation",
         "Performance Metrics">> >> >>

\* self.financial_templates.get(presentation_type, self.financial_templates["quarterly_analysis"])["slides"]
TemplateSlides(presentation_type) ==
  LET k == FirstOf({i \in 1..Len(financial_templates) :
                      financial_templates[i][1] = presentation_type})
      q == FirstOf({i \in 1..Len(financial_templates) :
                      financial_templates[i][1] = "quarterly_analysis"})
  IN  IF k # 0 THEN financial_templates[k][2] ELSE financial_templates[q][2]

\* line 195
common_symbols == <<"NIFTY", "SENSEX", "AAPL", "GOOGL", "MSFT", "TSLA">>

\* _extract_symbols_from_topic
extract_symbols_from_topic(t) ==
  LET k == FirstOf({i \in 1..Len(common_symbols) : Contains(Upper(t), common_symbols[i])})
  IN  IF k = 0 THEN <<>> ELSE <<common_symbols[k]>>

\* the empty dict
EmptyDict == << >>

\* the truth value of a dict
NonEmpty(dict) == DOMAIN dict # {}

\* the value None
None == "None"

\* one decimal digit
Digit(n) == SubSeq("0123456789", n + 1, n + 1)

\* str() of a float given in hundredths: the shortest decimal form, with at
\* least one digit after the point
FormatHundredths(n) ==
  LET a == IF n < 0 THEN -n ELSE n
      frac == a % 100
  IN  (IF n < 0 THEN "-" ELSE "") \o ToString(a \div 100) \o "." \o Digit(frac \div 10)
        \o (IF frac % 10 = 0 THEN "" ELSE Digit(frac % 10))

\* _get_visual_suggestion
get_visual_suggestion(title, market_data, topic_text) ==
  LET title_lower == Lower(title)
      by_title ==
        IF Contains(title_lower, "revenue") \/ Contains(title_lower, "market share")
        THEN "professional stock image of business revenue growth and financial success"
        ELSE IF Contains(title_lower, "performance") \/ Contains(title_lower, "growth")
        THEN "professional stock image of business performance and growth trends"
        ELSE IF Contains(title_lower, "financial") \/ Contains(title_lower, "projections")
        THEN "professional stock image of financial planning and business projections"
        ELSE IF Contains(title_lower, "risk") \/ Contains(title_lower, "volatility")
        THEN "professional stock image of business risk management and strategy"
        ELSE IF Contains(title_lower, "cash flow")
        THEN "professional stock image of cash flow management in business"
        ELSE IF Contains(title_lower, "profitability") \/ Contains(title_lower, "margin")
        THEN "professional stock image of business profitability and financial margins"
        ELSE IF Contains(title_lower, "balance sheet")
        THEN "professional stock image of financial balance and business stability"
        ELSE IF Contains(title_lower, "market position")
        THEN "professional stock image of market positioning and competitive business landscape"
        ELSE IF Contains(title_lower, "strategic") \/ Contains(title_lower, "outlook")
        THEN "professional stock image of business strategy and future outlook"
        ELSE "professional stock image of " \o title_lower \o " in finance and business"
      symbol == IF NonEmpty(market_data) THEN Get(market_data, "symbol") ELSE ""
  IN  [image_type |-> "stock_image",
       image_description |->
         IF symbol # ""
         THEN "professional stock image of " \o symbol \o " company in business context"
         ELSE by_title,
       key_insight |-> "Visual representation of " \o title,
       image_url |-> None]

\* _get_slide_data_points
get_slide_data_points(title, market_data) ==
  LET title_lower == Lower(title)
      has(k) == k \in DOMAIN market_data
  IN  IF ~NonEmpty(market_data) THEN <<>>
      ELSE IF Contains(title_lower, "performance")
      THEN (IF has("current_price")
            THEN <<"Current Price: $" \o FormatHundredths(market_data.current_price)>> ELSE <<>>)
           \o (IF has("total_return")
               THEN <<"1-Year Return: " \o FormatHundredths(market_data.total_return) \o "%">>
               ELSE <<>>)
      ELSE IF Contains(title_lower, "risk")
      THEN (IF has("volatility")
            THEN <<"Volatility: " \o FormatHundredths(market_data.volatility) \o "%">> ELSE <<>>)
           \o (IF has("max_drawdown")
               THEN <<"Max Drawdown: " \o FormatHundredths(market_data.max_drawdown) \o "%">>
               ELSE <<>>)
      ELSE <<>>

\* _enhance_slide_with_real_data: the bullet list of the slide afterwards
enhance_slide_with_real_data(content, title, market_data) ==
  LET title_lower == Lower(title)
  IN  IF Contains(title_lower, "overview") \/ Contains(title_lower, "summary")
      THEN IF "current_price" \in DOMAIN market_data
           THEN <<"Current Market Price: $" \o FormatHundredths(market_data.current_price)>>
                  \o content
           ELSE content
      ELSE IF Contains(title_lower, "growth")
      THEN IF "total_return" \in DOMAIN market_data
           THEN Append(content, "Growth Rate: " \o FormatHundredths(market_data.total_return)
                                  \o "% YTD")
           ELSE content
      ELSE content

MinBullets == 4

MaxBullets == 6

\* lines 90-91: while len(bullets) < 4: bullets.append(...)
RECURSIVE PadBullets(_, _)
PadBullets(bullets, title) ==
  IF Len(bullets) >= MinBullets THEN bullets
  ELSE PadBullets(Append(bullets, BulletMark \o " Additional insight on " \o Lower(title)), title)

\* lines 84-114: the body of the loop for the title at position i (from 0)
BuildSlideFor(w, args, market_data, i, title) ==
  LET slide_results == search_financial_topic(w, args.topic \o " " \o title, 5)
      bullets == SliceTo(PadBullets(extract_bullet_points(slide_results, title), title),
                         MaxBullets)
      suggestion == get_visual_suggestion(title, market_data, args.topic)
      image_query == suggestion.image_description \o " finance " \o args.topic
      image_urls == search_images(w, image_query, 1)
  IN  [slide_number |-> i + 1,
       title |-> title,
       content |->
         IF args.include_real_data /\ NonEmpty(market_data)
         THEN enhance_slide_with_real_data(bullets, title, market_data)
         ELSE bullets,
       visual_suggestion |->
         IF Len(image_urls) > 0
         THEN [suggestion EXCEPT !.image_url = image_urls[1]]
         ELSE suggestion,
       data_points |-> get_slide_data_points(title, market_data)]

\* _get_appendix_suggestions
appendix_suggestions ==
  <<"Detailed financial models and assumptions",
    "Supporting market research and data sources",
    "Risk assessment matrices and scenario analysis",
    "Competitive benchmarking and industry comparisons",
    "Regulatory compliance and legal considerations">>

\* lines 116-123: the dict returned on the search path
SearchContent(args, slides) ==
  [presentation_title |-> Title(args.presentation_type) \o " - " \o args.topic,
   executive_summary |->
     "This presentation provides a comprehensive " \o args.presentation_type \o " on "
       \o args.topic \o " for " \o args.target_audience
       \o ", based on current market data and industry reports from reliable sources.",
   slides |-> slides,
   appendix_suggestions |-> appendix_suggestions]

\* lines 230-241: the slides of _get_fallback_content
RECURSIVE FallbackSlides(_, _)
FallbackSlides(slide_titles, i) ==
  IF i > Len(slide_titles) THEN <<>>
  ELSE <<[slide_number |-> i,
          title |-> slide_titles[i],
          content |-> <<"Key point 1 for " \o slide_titles[i],
                        "Key point 2 for " \o slide_titles[i],
                        "Key point 3 for " \o slide_titles[i]>>,
          visual_suggestion |-> [chart_type |-> "bar", data_description |-> "Sample data"],
          data_points |-> <<>>]>> \o FallbackSlides(slide_titles, i + 1)

\* _get_fallback_content
get_fallback_content(topic_text, presentation_type, target_audience, slide_count) ==
  [presentation_title |-> "Financial Presentation: " \o topic_text,
   executive_summary |->
     "This presentation covers " \o topic_text \o " for " \o target_audience \o ".",
   slides |-> FallbackSlides(SliceTo(TemplateSlides(presentation_type), slide_count), 1),
   key_recommendations |->
     <<"Conduct further analysis", "Monitor key metrics", "Implement recommendations">>,
   appendix_suggestions |-> <<"Additional data", "Supporting documents">>]

\* _get_fallback_general_analysis / the dict of _analyze_general_market: the
\* same keys on both returns; primary_market is the result of
\* _analyze_index("^NSEI", "Nifty 50", years)
GeneralMarketAnalysis(topic_text, years, primary_market) ==
  [topic |-> topic_text,
   analysis_type |-> "General Market Analysis",
   primary_market |-> primary_market,
   global_context |-> "computed",
   market_overview |-> "computed",
   key_trends |-> "computed",
   economic_factors |-> "computed",
   investment_themes |-> "computed",
   risk_outlook |-> "computed",
   strategic_recommendations |-> "computed",
   period_analyzed |-> years]

\* the draws of the fallback analysis that differ in price and volatility only
SampleDraws ==
  {d \in FallbackDraws :
     /\ d.high_factor = 105 /\ d.low_factor = 75 /\ d.max_drawdown = 500
     /\ d.sma_20_factor = 100 /\ d.sma_50_factor = 90 /\ d.rsi = 3000}

\* what _analyze_index(symbol, topic, years) can return: an analysis of line
\* 284 for some answer of the provider to some tried symbol, or the fallback
AnalyzeIndexReturns(symbol, topic_text, years) ==
  {TryOneSymbol(r, SymbolsPerRound(symbol)[i], topic_text, years).analysis :
     <<r, i>> \in {p \in ProviderResponses \X (1..Len(SymbolsPerRound(symbol))) :
                    TryOneSymbol(p[1], SymbolsPerRound(symbol)[p[2]], topic_text, years).returned}}
    \cup {FallbackIndexAnalysis(symbol, topic_text, years, d) : d \in SampleDraws}

\* line 118: years: int = 3
AnalysisYears == 3

\* get_comprehensive_analysis(topic) with the default years, for a topic
\* the classifier sends to the index or the general analysis
ComprehensiveAnalyses(topic_text) ==
  LET classified == ParseTopic(topic_text)
      target == AnalysisRoutine(classified)
  IN  CASE target = "_analyze_index" ->
             AnalyzeIndexReturns(classified.symbol, topic_text, AnalysisYears)
        [] target = "_analyze_general_market" ->
             {GeneralMarketAnalysis(topic_text, AnalysisYears, p) :
                p \in AnalyzeIndexReturns("^NSEI", "Nifty 50", AnalysisYears)}

\* period_analyzed: f"{years} years"
PeriodAnalyzed(years) == ToString(years) \o " years"

\* the analysis_type literal each routine writes, on its return and on the
\* return of its fallback
AnalysisTypeOf(routine_name) ==
  CASE routine_name = "_analyze_index"            -> "Index Analysis"
    [] routine_name = "_analyze_sector"           -> "Sector Analysis"
    [] routine_name = "_analyze_individual_stock" -> "Individual Stock Analysis"
    [] routine_name = "_analyze_commodity"        -> "Commodity Analysis"
    [] routine_name = "_analyze_investment_theme" -> "Thematic Investment Analysis"
    [] routine_name = "_analyze_general_market"   -> "General Market Analysis"

\* the keys topic, analysis_type and period_analyzed every routine and every
\* fallback puts in its dict; via names the return statement taken
AnalysisHead(routine_name, topic_text, years, via) ==
  [topic |-> topic_text,
   analysis_type |-> AnalysisTypeOf(routine_name),
   period_analyzed |-> PeriodAnalyzed(years),
   via |-> via]

Raised(exception) == [raised |-> exception]

\* a routine whose try block has no handler: the exception leaves the routine
RoutineReturnUncaught(classified, topic_text, years, body_raises) ==
  IF body_raises
  THEN Raised("Exception")
  ELSE AnalysisHead(AnalysisRoutine(classified), topic_text, years, "analysis")

\* the routine called with the lookback the classification extracted from
\* the topic instead of the years argument
RoutineReturnParsedYears(classified, topic_text, years, body_raises) ==
  LET routine_name == AnalysisRoutine(classified)
      lookback == IF "years" \in DOMAIN classified THEN classified.years ELSE years
  IN  AnalysisHead(routine_name, topic_text, lookback,
                   IF body_raises THEN "fallback" ELSE "analysis")

\* the routine the classification is dispatched to, called with the topic
\* and the years argument: the dict of its try block, or, when the block
\* raises, the dict of its fallback.  The try block of _analyze_index always
\* raises (_calculate_max_drawdown is not defined).
RoutineReturn(classified, topic_text, years, body_raises) ==
  LET routine_name == AnalysisRoutine(classified)
      via == IF body_raises \/ routine_name = "_analyze_index"
             THEN "fallback" ELSE "analysis"
      head == AnalysisHead(routine_name, topic_text, years, via)
  IN  CASE routine_name \in {"_analyze_index", "_analyze_individual_stock",
                             "_analyze_commodity"} ->
             head @@ [symbol |-> classified.symbol]
        [] routine_name = "_analyze_sector" ->
             head @@ [sector |-> classified.sector]
        [] routine_name = "_analyze_investment_theme" ->
             head @@ [theme |-> classified.theme]
        [] OTHER -> head

\* lines 118-139: classification, dispatch, and the handler of line 137
get_comprehensive_analysis(topic_text, years, body_raises) ==
  LET returned == RoutineReturn(ParseTopic(topic_text), topic_text, years, body_raises)
  IN  IF "raised" \in DOMAIN returned
      THEN AnalysisHead("_analyze_general_market", topic_text, years, "fallback")
      ELSE returned

(***************************************************************************)
(* ProfessionalPPTGenerator.  A colour scheme is modelled by the set of    *)
(* its keys, a deck by the sequence of its slides.                         *)
(***************************************************************************)

\* the keys of the schemes corporate_blue, financial_green, modern_orange,
\* modern_white and executive_dark
StandardColorKeys ==
  {"primary_color", "secondary_color", "accent_color", "text_color", "background_color",
   "success_color", "warning_color", "danger_color"}

\* the keys of the scheme colorful_modern
ColorfulModernKeys == {"bar_colors", "letter_color", "title_color", "background_color"}

\* self.templates, in source order: the name and the keys of each scheme
templates ==
  << <<"corporate_blue",  StandardColorKeys>>,
     <<"financial_green", StandardColorKeys>>,
     <<"modern_orange",   StandardColorKeys>>,
     <<"colorful_modern", ColorfulModernKeys>>,
     <<"modern_white",    StandardColorKeys>>,
     <<"executive_dark",  StandardColorKeys>> >>

TemplateNames == {templates[i][1] : i \in 1..Len(templates)}

\* self.templates[template], for a name of TemplateNames
ColorsOf(template) ==
  templates[CHOOSE i \in 1..Len(templates) : templates[i][1] = template][2]

\* the first key of the sequence `keys` that the scheme lacks, "" if it has all:
\* colors[key] raises KeyError at that key
FirstMissing(keys, colors) ==
  LET k == FirstOf({i \in 1..Len(keys) : keys[i] \notin colors})
  IN  IF k = 0 THEN "" ELSE keys[k]

\* dict.get(key, default)
GetOr(dict, key, default) == IF key \in DOMAIN dict THEN dict[key] ELSE default

\* the keys read by _create_colorful_title_slide, in the order of the reads
ColorfulTitleReads == <<"background_color", "bar_colors", "letter_color", "title_color">>

\* the keys read by the else branch of _create_title_slide
OriginalTitleReads == <<"background_color", "primary_color", "secondary_color">>

\* line 114: if "colorful_modern" in colors, a test on the keys of the scheme
TitleSlideReads(colors) ==
  IF "colorful_modern" \in colors THEN ColorfulTitleReads ELSE OriginalTitleReads

\* _create_title_slide: the slide added, or the key whose lookup raises
create_title_slide(content, colors) ==
  [missing |-> FirstMissing(TitleSlideReads(colors), colors),
   slide |-> [layout |-> "title",
              title |-> GetOr(content, "presentation_title", "Financial Analysis")]]

\* line 244: slides_data[:8]
AgendaLimit == 8

\* lines 244-246: one numbered paragraph per slide among the first eight
AgendaItems(slides_data) ==
  [i \in 1..Min(Len(slides_data), AgendaLimit) |->
     ToString(i) \o ". " \o GetOr(slides_data[i], "title", "Section " \o ToString(i))]

\* _create_agenda_slide with _format_slide_title
create_agenda_slide(content, colors) ==
  LET slides_data == GetOr(content, "slides", <<>>)
      summary == GetOr(content, "executive_summary", "")
  IN  [missing |->
         FirstMissing(<<"background_color", "primary_color">>
                        \o (IF Len(slides_data) > 0 THEN <<"text_color">> ELSE <<>>)
                        \o (IF summary # "" THEN <<"primary_color", "text_color">> ELSE <<>>),
                      colors),
       slide |-> [layout |-> "agenda", title |-> "Agenda",
                  items |-> AgendaItems(slides_data)]]

\* _add_image_to_slide whose handler lets the exception of the download pass on
add_image_to_slide_unguarded(visual_suggestion, download_fails) ==
  LET image_url == GetOr(visual_suggestion, "image_url", None)
  IN  IF image_url \in {None, ""} THEN [raised |-> "", pictures |-> <<>>]
      ELSE IF download_fails THEN [raised |-> "RequestException", pictures |-> <<>>]
      ELSE [raised |-> "", pictures |-> <<image_url>>]

\* _add_image_to_slide: the pictures the slide gets; requests.get or
\* raise_for_status raising is caught at line 369 and the picture is left out
add_image_to_slide(visual_suggestion, download_fails) ==
  LET image_url == GetOr(visual_suggestion, "image_url", None)
  IN  IF image_url \in {None, ""} THEN [raised |-> "", pictures |-> <<>>]
      ELSE IF download_fails THEN [raised |-> "", pictures |-> <<>>]
      ELSE [raised |-> "", pictures |-> <<image_url>>]

\* _create_content_slide with _format_slide_title and _add_image_to_slide:
\* the slide added, the key whose lookup raises, the exception of the image
create_content_slide(slide_data, colors, download_fails) ==
  LET content_items == GetOr(slide_data, "content", <<>>)
      data_points == GetOr(slide_data, "data_points", <<>>)
      image == add_image_to_slide(GetOr(slide_data, "visual_suggestion", EmptyDict),
                                  download_fails)
  IN  [missing |->
         FirstMissing(<<"background_color", "primary_color">>
                        \o (IF Len(content_items) + Len(data_points) > 0
                            THEN <<"text_color">> ELSE <<>>),
                      colors),
       raised |-> image.raised,
       slide |-> [layout |-> "content", title |-> GetOr(slide_data, "title", "Content Slide"),
                  pictures |-> image.pictures]]

\* line 92 of app.py: the slider ends at 20 slides
MaxSlides == 20

\* the positions of the content slides whose image download fails
DownloadFailures == {{}, {1}, 1..MaxSlides}

\* the result of a call that raises KeyError(key)
KeyError(key) == [raised |-> "KeyError", key |-> key]

\* the result of a call that returns the bytes of the deck
Returned(deck) == [raised |-> "", bytes |-> deck]

\* the result of a call that raises another exception
Exception(name) == [raised |-> name]

\* lines 98-99: the loop over content["slides"], from slide i on; failed is
\* the set of positions whose image download fails
RECURSIVE AddContentSlides(_, _, _, _, _)
AddContentSlides(deck, slides_data, i, colors, failed) ==
  IF i > Len(slides_data) THEN Returned(deck)
  ELSE LET made == create_content_slide(slides_data[i], colors, i \in failed)
       IN  IF made.missing # "" THEN KeyError(made.missing)
           ELSE IF made.raised # "" THEN Exception(made.raised)
           ELSE AddContentSlides(Append(deck, made.slide), slides_data, i + 1, colors, failed)

\* create_presentation(content, template), with the image downloads that fail
create_presentation(content, template, failed) ==
  IF template \notin TemplateNames THEN KeyError(template)
  ELSE LET colors == ColorsOf(template)
           title_slide == create_title_slide(content, colors)
           agenda_slide == create_agenda_slide(content, colors)
       IN  IF title_slide.missing # "" THEN KeyError(title_slide.missing)
           ELSE IF agenda_slide.missing # "" THEN KeyError(agenda_slide.missing)
           ELSE AddContentSlides(<<title_slide.slide, agenda_slide.slide>>,
                                 GetOr(content, "slides", <<>>), 1, colors, failed)

\* save_presentation: the path of the file written
OutputPath(filename) == "output/" \o filename

(***************************************************************************)
(* SecurityManager.mask_api_key.  The Optional[str] argument is <<>> for   *)
(* None and <<s>> for the string s.                                        *)
(***************************************************************************)

\* line 56: keys shorter than this are called invalid
MinKeyLength == 8

\* line 59: the characters shown at each end
ShownAtEachEnd == 4

\* api_key[:4]
KeyPrefix(key) == SubSeq(key, 1, Min(Len(key), ShownAtEachEnd))

\* api_key[-4:]
KeySuffix(key) ==
  SubSeq(key, (IF Len(key) > ShownAtEachEnd THEN Len(key) - ShownAtEachEnd + 1 ELSE 1), Len(key))

\* line 59: f"{api_key[:4]}...{api_key[-4:]}"
MaskedText(key) == KeyPrefix(key) \o "..." \o KeySuffix(key)

\* mask_api_key(api_key)
mask_api_key(optional_key) ==
  IF optional_key = <<>> THEN "Not configured"
  ELSE IF optional_key[1] = "" THEN "Not configured"
  ELSE IF Len(optional_key[1]) < MinKeyLength THEN "Invalid key"
  ELSE MaskedText(optional_key[1])

(***************************************************************************)
(* app.py: generate_presentation.                                          *)
(***************************************************************************)

\* the chain with the replacement of the backslash left out
FilenameReplacementsKeepingBackslash ==
  << <<"\n", "">>, <<"\r", "">>, <<" ", "_">>, <<"/", "_">>, <<":", "_">>,
     <<"*", "_">>, <<"?", "_">>, <<"\"", "_">>, <<"<", "_">>, <<">", "_">>, <<"|", "_">> >>

\* line 222: the replacements made after strip(), in the order of the chain
FilenameReplacements ==
  << <<"\n", "">>, <<"\r", "">>, <<" ", "_">>, <<"/", "_">>, <<"\\", "_">>, <<":", "_">>,
     <<"*", "_">>, <<"?", "_">>, <<"\"", "_">>, <<"<", "_">>, <<">", "_">>, <<"|", "_">> >>

\* s.replace(old, new) for each pair of reps from position i on, in order
RECURSIVE ReplaceEach(_, _, _)
ReplaceEach(s, reps, i) ==
  IF i > Len(reps) THEN s
  ELSE ReplaceEach(Replace(s, reps[i][1], reps[i][2]), reps, i + 1)

\* line 222: sanitized_topic
SanitizeTopic(t) == ReplaceEach(Strip(t), FilenameReplacements, 1)

\* line 223: filename, for the value `now` of strftime('%Y%m%d_%H%M%S')
Filename(t, now) == SanitizeTopic(t) \o "_" \o now \o ".pptx"

\* line 211: formatted_template
FormatTemplate(template_key) == Replace(Lower(template_key), " ", "_")

\* dict[key] = value
Put(dict, key, value) ==
  [k \in DOMAIN dict \cup {key} |-> IF k = key THEN value ELSE dict[k]]

\* the part of the session state under the key 'ppt_result'
Stored(state) == [k \in DOMAIN state \cap {"ppt_result"} |-> state[k]]

\* lines 231-237: the dict stored under 'ppt_result'
PptResult(ppt_file, generated) ==
  [ppt_file |-> ppt_file,
   title |-> GetOr(generated, "presentation_title", "Financial Presentation"),
   summary |-> GetOr(generated, "executive_summary", ""),
   slides |-> SliceTo(GetOr(generated, "slides", <<>>), 5),
   recommendations |-> GetOr(generated, "key_recommendations", <<>>)]

\* content_generator.py lines 82-114: the slides for the titles from position i on
RECURSIVE BuildSlides(_, _, _, _, _)
BuildSlides(w, args, md, titles, i) ==
  IF i > Len(titles) THEN <<>>
  ELSE <<BuildSlideFor(w, args, md, i - 1, titles[i])>> \o BuildSlides(w, args, md, titles, i + 1)

\* generate_presentation_content with content_provider "SerpAPI", in world w
\* and with the market data md
GeneratedContent(w, args, md) ==
  SearchContent(args,
    BuildSlides(w, args, md,
                SliceTo(TemplateSlides(args.presentation_type), args.slide_count), 1))

\* lines 193-200: the arguments passed to generate_presentation_content
GeneratorArgs(a) ==
  [topic |-> a.topic,
   presentation_type |-> "quarterly_analysis",
   target_audience |-> "Executive Leadership",
   slide_count |-> a.slide_count,
   include_real_data |-> a.include_real_data,
   content_provider |-> "SerpAPI"]

\* line 247 left out: the flag keeps its value
AfterFinallyFlagKept(state) == state

\* line 247 with the whole session state replaced
AfterFinallyCleared(state) == [k \in {"generating"} |-> FALSE]

\* line 247: st.session_state['generating'] = False
AfterFinally(state) == Put(state, "generating", FALSE)

(***************************************************************************)
(* State.                                                                  *)
(***************************************************************************)

VARIABLES
  topic,          \* the free-text topic passed to the service
  gca_pc,         \* position in get_comprehensive_analysis: "call", "parsed", "dispatched"
  analysis_type,  \* the result of _parse_topic
  routine,        \* the analysis routine the classification is dispatched to
  gca_years,      \* get_comprehensive_analysis: the years argument
  gca_result,     \* get_comprehensive_analysis: the analysis returned
  ai_symbol,      \* _analyze_index: the symbol argument
  ai_years,       \* _analyze_index: the years argument
  ai_pc,          \* _analyze_index: "try", "sleep", "fallback", "done", "raised"
  attempt,        \* _analyze_index: the round, `attempt` of line 232
  sym_idx,        \* _analyze_index: position in symbols_to_try[:2]
  calls,          \* _analyze_index: the fetches and sleeps made so far, in order
  ai_result,      \* _analyze_index: the analysis returned
  ai_via,         \* _analyze_index: the return taken, "history" (line 284) or "fallback" (line 296)
  gp_args,        \* generate_presentation_content: the arguments
  gp_pc,          \* generate_presentation_content: "call", "market", "slides", "done"
  world,          \* what the search provider answers
  slide_titles,   \* generate_presentation_content: slide_titles
  slides,         \* generate_presentation_content: slides
  market_data,    \* generate_presentation_content: market_data
  requests,       \* the requests made to the search provider and the market-data service
  content,        \* the content returned
  session_state,  \* st.session_state: the keys set and their values
  app_pc,         \* generate_presentation: "idle", "content", "ppt", "save", "store", "except", "finally"
  app_args,       \* generate_presentation: the arguments
  app_content,    \* generate_presentation: content
  ppt_bytes,      \* generate_presentation: ppt_bytes
  filename,       \* generate_presentation: filename
  output_files,   \* the files in the output directory
  user_topics,    \* the topics the user enters during the session
  app_runs,       \* the calls of generate_presentation so far
  stored_at_call, \* the result the session state held when the running call began
  app_exit,       \* how the last call ended: "no_content", "no_bytes", "exception", "rerun"
  environment,    \* the .env file and the environment variables of the process
  last_run,       \* main: the widget values and the page of the last script run
  deck_content,   \* create_presentation: the content argument
  deck_template,  \* create_presentation: the template argument
  deck_pc,        \* create_presentation: "title", "agenda", "slides", "done", "raised"
  deck_downloads, \* create_presentation: the content slides whose image download fails
  prs,            \* create_presentation: the slides of prs so far
  deck_out,       \* create_presentation: the bytes returned or the exception raised
  api_key,        \* mask_api_key: the argument, <<>> for None, else <<the string>>
  masked          \* mask_api_key: the text returned, <<>> before the return

topicVars == <<topic, gca_pc, analysis_type, routine, gca_years, gca_result>>

indexVars == <<ai_symbol, ai_years, ai_pc, attempt, sym_idx, calls, ai_result, ai_via>>

contentVars == <<gp_args, gp_pc, world, slide_titles, slides, market_data, requests, content>>

appVars ==
  <<session_state, app_pc, app_args, app_content, ppt_bytes, filename, output_files,
    user_topics, app_runs, stored_at_call, app_exit, environment, last_run>>

deckVars == <<deck_content, deck_template, deck_downloads, deck_pc, prs, deck_out>>

maskVars == <<api_key, masked>>

vars == <<topicVars, indexVars, contentVars, appVars, deckVars, maskVars>>

\* mask_api_key is not running
MaskIdle ==
  /\ api_key = <<>>
  /\ masked = <<>>

NoResult == [type |-> "none"]

\* the service is not classifying a topic
TopicIdle ==
  /\ gca_pc = "idle"
  /\ analysis_type = NoResult
  /\ routine = "none"
  /\ gca_years = 0
  /\ gca_result = NoResult

\* no index analysis is running
IndexIdle ==
  /\ ai_symbol = "none"
  /\ ai_years = 0
  /\ ai_pc = "idle"
  /\ attempt = 0
  /\ sym_idx = 0
  /\ calls = <<>>
  /\ ai_result = NoAnalysis
  /\ ai_via = "none"

NoContent == [presentation_title |-> "none"]

NoArgs == [content_provider |-> "none"]

NoWorld == [fails_on |-> {}]

\* no content is being generated
ContentIdle ==
  /\ gp_args = NoArgs
  /\ gp_pc = "idle"
  /\ world = NoWorld
  /\ slide_titles = <<>>
  /\ slides = <<>>
  /\ market_data = EmptyDict
  /\ requests = <<>>
  /\ content = NoContent

NoAppArgs == [topic |-> ""]

\* generate_presentation is not running
AppCallIdle ==
  /\ app_pc = "idle"
  /\ app_args = NoAppArgs
  /\ app_content = EmptyDict
  /\ ppt_bytes = <<>>
  /\ filename = ""
  /\ stored_at_call = EmptyDict
  /\ app_exit = "none"

NoDeckResult == [raised |-> "none"]

\* create_presentation is not running
DeckIdle ==
  /\ deck_content = EmptyDict
  /\ deck_template = "none"
  /\ deck_downloads = {}
  /\ deck_pc = "idle"
  /\ prs = <<>>
  /\ deck_out = NoDeckResult

NoEnvironment == [env_file_exists |-> FALSE, variables |-> EmptyDict]

NoRun == [rendered |-> "none"]

\* no session of the application is open
AppIdle ==
  /\ environment = NoEnvironment
  /\ last_run = NoRun
  /\ session_state = EmptyDict
  /\ output_files = {}
  /\ user_topics = {}
  /\ app_runs = 0
  /\ AppCallIdle

(***************************************************************************)
(* get_comprehensive_analysis(topic): classification, then dispatch.       *)
(***************************************************************************)

MaxFragments == 2

\* pieces of text the topics are assembled from
TopicFragments ==
  {"gold", "Nifty 50", "crude oil", "natural gas", "AAPL", "TCS", "stock", "bank",
   "profit", "green", "bond", "market", "commodity", "weather",
   "last 5 years", "past 0 year", "over 12  years", "last 7 yearly"}

RECURSIVE JoinFragments(_)
JoinFragments(fs) ==
  IF Len(fs) = 1 THEN fs[1]
  ELSE fs[1] \o " " \o JoinFragments(Tail(fs))

Topics ==
  {JoinFragments(fs) : fs \in UNION {[1..n -> TopicFragments] : n \in 1..MaxFragments}}

\* values of the years argument (3 is the default of line 118)
YearsArguments == {1, AnalysisYears}

TopicInit ==
  /\ MaskIdle
  /\ DeckIdle
  /\ AppIdle
  /\ topic \in Topics
  /\ gca_years \in YearsArguments
  /\ gca_pc = "call"
  /\ analysis_type = NoResult
  /\ routine = "none"
  /\ gca_result = NoResult
  /\ IndexIdle
  /\ ContentIdle

\* line 121: analysis_type = self._parse_topic(topic)
CallParseTopic ==
  /\ gca_pc = "call"
  /\ analysis_type' = ParseTopic(topic)
  /\ gca_pc' = "parsed"
  /\ UNCHANGED <<maskVars, deckVars, appVars, topic, routine, gca_years, gca_result, indexVars, contentVars>>

\* lines 123-135: the if/elif chain on analysis_type["type"]
Dispatch ==
  /\ gca_pc = "parsed"
  /\ routine' = AnalysisRoutine(analysis_type)
  /\ gca_pc' = "dispatched"
  /\ UNCHANGED <<maskVars, deckVars, appVars, topic, analysis_type, gca_years, gca_result, indexVars, contentVars>>

\* lines 123-139: the routine runs and get_comprehensive_analysis returns
ReturnAnalysis ==
  /\ gca_pc = "dispatched"
  /\ \E body_raises \in BOOLEAN :
       gca_result' = get_comprehensive_analysis(topic, gca_years, body_raises)
  /\ gca_pc' = "returned"
  /\ UNCHANGED <<maskVars, deckVars, appVars, topic, analysis_type, routine, gca_years, indexVars, contentVars>>

TopicNext == CallParseTopic \/ Dispatch \/ ReturnAnalysis

SpecTopic == TopicInit /\ [][TopicNext]_vars

(***************************************************************************)
(* _analyze_index(symbol, topic, years): two rounds over the first two     *)
(* symbols, a backoff sleep between the rounds, then the fallback.         *)
(***************************************************************************)

IndexTopics == {"Nifty 50 Analysis"}

\* symbols with three, two and no alternatives
IndexSymbols == {"^NSEI", "^DJI", "^FTSE", "GC=F"}

IndexYears == {1, 3}

IndexInit ==
  /\ MaskIdle
  /\ DeckIdle
  /\ AppIdle
  /\ topic \in IndexTopics
  /\ TopicIdle
  /\ ai_symbol \in IndexSymbols
  /\ ai_years \in IndexYears
  /\ ai_pc = "try"
  /\ attempt = 0
  /\ sym_idx = 1
  /\ calls = <<>>
  /\ ai_result = NoAnalysis
  /\ ai_via = "none"
  /\ ContentIdle

Fetch(sym, enough) ==
  [kind |-> "fetch", attempt |-> attempt, sym |-> sym, enough |-> enough, ms |-> 0]

Sleep(ms) ==
  [kind |-> "sleep", attempt |-> attempt, sym |-> "", enough |-> FALSE, ms |-> ms]

\* lines 233-288: one pass of the inner loop; the provider's answer r is any
\* of ProviderResponses
TrySymbol ==
  /\ ai_pc = "try"
  /\ \E r \in ProviderResponses :
       LET sym  == SymbolsPerRound(ai_symbol)[sym_idx]
           out  == TryOneSymbol(r, sym, topic, ai_years)
           last == sym_idx = Len(SymbolsPerRound(ai_symbol))
       IN  /\ calls' = Append(calls,
                         Fetch(sym, ~r.ticker_raises
                                      /\ HistoryObtained(r).rows >= MinDataPoints))
           /\ IF out.returned
              THEN /\ ai_result' = out.analysis
                   /\ ai_via' = "history"
                   /\ ai_pc' = "done"
                   /\ UNCHANGED <<attempt, sym_idx>>
              ELSE /\ UNCHANGED <<ai_result, ai_via, attempt>>
                   /\ IF out.error # "insufficient" /\ ~HandlerCatches(out.error)
                      THEN ai_pc' = "raised" /\ UNCHANGED sym_idx
                      ELSE IF ~last
                      THEN ai_pc' = "try" /\ sym_idx' = sym_idx + 1
                      ELSE /\ sym_idx' = sym_idx
                           /\ ai_pc' = IF SleepsAfterRound(attempt) THEN "sleep" ELSE "fallback"
  /\ UNCHANGED <<maskVars, deckVars, appVars, topicVars, contentVars, ai_symbol, ai_years>>

\* lines 291-293: the backoff after a round that is not the last
Backoff ==
  /\ ai_pc = "sleep"
  /\ \E jitter \in Uniform(0, 500) :
       calls' = Append(calls, Sleep(BackoffDelay(attempt, jitter)))
  /\ attempt' = attempt + 1
  /\ sym_idx' = 1
  /\ ai_pc' = "try"
  /\ UNCHANGED <<maskVars, deckVars, appVars, topicVars, contentVars, ai_symbol, ai_years, ai_result, ai_via>>

\* line 296: return self._get_complete_fallback_index_analysis(symbol, topic, years)
ReturnFallback ==
  /\ ai_pc = "fallback"
  /\ \E d \in FallbackDraws :
       ai_result' = FallbackIndexAnalysis(ai_symbol, topic, ai_years, d)
  /\ ai_via' = "fallback"
  /\ ai_pc' = "done"
  /\ UNCHANGED <<maskVars, deckVars, appVars, topicVars, contentVars, ai_symbol, ai_years, attempt, sym_idx, calls>>

IndexNext == TrySymbol \/ Backoff \/ ReturnFallback

SpecIndex == IndexInit /\ [][IndexNext]_vars

(***************************************************************************)
(* generate_presentation_content(topic, presentation_type, target_audience,*)
(* slide_count, include_real_data, content_provider).                      *)
(***************************************************************************)

RichResults ==
  <<[title   |-> "Quarterly financial report",
     snippet |-> "The company reported strong revenue growth in the quarter. Operating margin improved on lower input costs. More",
     link    |-> "https://example.com/a"],
    [title   |-> "Market analysis",
     snippet |-> "* Analysts expect the stock market to stay volatile. Short one.",
     link    |-> "https://example.com/b"],
    [snippet |-> "Investors watch the performance of the index closely. Liquidity in the market remains ample this year"]>>

SparseResults ==
  <<[title   |-> "Stock market report",
     snippet |-> "Shares ended the session slightly higher today. Flat.",
     link    |-> "https://example.com/c"]>>

IrrelevantResults ==
  <<[title   |-> "Dinner ideas",
     snippet |-> "Ten quick recipes for a busy weeknight dinner. Ready in under thirty minutes",
     link    |-> "https://example.com/d"]>>

\* what the search provider does: the queries whose request fails, and the
\* JSON document it answers the other requests with
SearchWorlds ==
  {[fails_on |-> {""}, data |-> [search_metadata |-> "Success"]],
   [fails_on |-> {},   data |-> [search_metadata |-> "Success"]],
   [fails_on |-> {},
    data |-> [organic_results |-> RichResults,
              images_results  |-> <<[original |-> "https://img.example.com/1.jpg"],
                                    [original |-> "https://img.example.com/2.jpg"]>>]],
   [fails_on |-> {},
    data |-> [organic_results |-> SparseResults,
              images_results  |-> <<[thumbnail |-> "https://img.example.com/t.jpg"]>>]],
   [fails_on |-> {},
    data |-> [organic_results |-> IrrelevantResults]],
   [fails_on |-> {"Risk", "risk", "Cash Flow"},
    data |-> [organic_results |-> RichResults,
              images_results  |-> <<[original |-> "https://img.example.com/1.jpg"]>>]]}

ContentTopics == {"Sensex outlook", "TSLA earnings", "Corporate bonds"}

PresentationTypes ==
  {"quarterly_analysis", "investment_proposal", "budget_planning", "market_research"}

SlideCounts == {0, 1, 5, 9, 10, 20}

ContentProviders == {"SerpAPI", "AI"}

ContentArgs ==
  [topic : ContentTopics,
   presentation_type : PresentationTypes,
   target_audience : {"Executive Leadership"},
   slide_count : SlideCounts,
   include_real_data : BOOLEAN,
   content_provider : ContentProviders]

ContentInit ==
  /\ MaskIdle
  /\ DeckIdle
  /\ AppIdle
  /\ gp_args \in ContentArgs
  /\ topic = gp_args.topic
  /\ world \in SearchWorlds
  /\ gp_pc = "call"
  /\ slide_titles = <<>>
  /\ slides = <<>>
  /\ market_data = EmptyDict
  /\ requests = <<>>
  /\ content = NoContent
  /\ TopicIdle
  /\ IndexIdle

Request(kind, q) == [kind |-> kind, q |-> q]

\* lines 62-64 with a prompt sent to the AI text provider before the return
ReturnFallbackContentViaAI ==
  /\ gp_pc = "call"
  /\ gp_args.content_provider # "SerpAPI"
  /\ requests' = Append(requests, Request("ai", gp_args.topic))
  /\ content' = get_fallback_content(gp_args.topic, gp_args.presentation_type,
                                     gp_args.target_audience, gp_args.slide_count)
  /\ gp_pc' = "done"
  /\ UNCHANGED <<maskVars, deckVars, appVars, topicVars, indexVars, gp_args, world, slide_titles, slides,
                 market_data>>

\* lines 62-64: any provider other than "SerpAPI" gets the static content
ReturnFallbackContent ==
  /\ gp_pc = "call"
  /\ gp_args.content_provider # "SerpAPI"
  /\ content' = get_fallback_content(gp_args.topic, gp_args.presentation_type,
                                     gp_args.target_audience, gp_args.slide_count)
  /\ gp_pc' = "done"
  /\ UNCHANGED <<maskVars, deckVars, appVars, topicVars, indexVars, gp_args, world, slide_titles, slides, market_data, requests>>

\* lines 67-74: the search on the topic and the choice of the titles
SearchTopic ==
  /\ gp_pc = "call"
  /\ gp_args.content_provider = "SerpAPI"
  /\ requests' = Append(requests, Request("search", gp_args.topic \o " financial analysis"))
  /\ slide_titles' = SliceTo(TemplateSlides(gp_args.presentation_type), gp_args.slide_count)
  /\ gp_pc' = "market"
  /\ UNCHANGED <<maskVars, deckVars, appVars, topicVars, indexVars, gp_args, world, slides, market_data, content>>

\* lines 78-80 without the test of include_real_data
FetchMarketDataAlways ==
  /\ gp_pc = "market"
  /\ LET symbols == extract_symbols_from_topic(gp_args.topic)
     IN  IF Len(symbols) > 0
         THEN /\ market_data' \in ComprehensiveAnalyses(symbols[1])
              /\ requests' = Append(requests, Request("market", symbols[1]))
         ELSE UNCHANGED <<market_data, requests>>
  /\ gp_pc' = "slides"
  /\ UNCHANGED <<maskVars, deckVars, appVars, topicVars, indexVars, gp_args, world, slide_titles, slides, content>>

\* lines 76-80: the market data of the first symbol found in the topic
FetchMarketData ==
  /\ gp_pc = "market"
  /\ LET symbols == extract_symbols_from_topic(gp_args.topic)
     IN  IF gp_args.include_real_data /\ Len(symbols) > 0
         THEN /\ market_data' \in ComprehensiveAnalyses(symbols[1])
              /\ requests' = Append(requests, Request("market", symbols[1]))
         ELSE UNCHANGED <<market_data, requests>>
  /\ gp_pc' = "slides"
  /\ UNCHANGED <<maskVars, deckVars, appVars, topicVars, indexVars, gp_args, world, slide_titles, slides, content>>

\* lines 82-114: one pass of the loop over the titles
BuildSlide ==
  /\ gp_pc = "slides"
  /\ Len(slides) < Len(slide_titles)
  /\ LET i == Len(slides)
         title == slide_titles[i + 1]
         suggestion == get_visual_suggestion(title, market_data, gp_args.topic)
     IN  /\ slides' = Append(slides, BuildSlideFor(world, gp_args, market_data, i, title))
         /\ requests' = requests \o
              <<Request("search", gp_args.topic \o " " \o title \o " financial analysis"),
                Request("images", suggestion.image_description \o " finance " \o gp_args.topic)>>
  /\ UNCHANGED <<maskVars, deckVars, appVars, topicVars, indexVars, gp_args, world, gp_pc, slide_titles, market_data, content>>

\* lines 116-123: the return after the last title
ReturnContent ==
  /\ gp_pc = "slides"
  /\ Len(slides) = Len(slide_titles)
  /\ content' = SearchContent(gp_args, slides)
  /\ gp_pc' = "done"
  /\ UNCHANGED <<maskVars, deckVars, appVars, topicVars, indexVars, gp_args, world, slide_titles, slides, market_data, requests>>

ContentNext ==
  ReturnFallbackContent \/ SearchTopic \/ FetchMarketData \/ BuildSlide \/ ReturnContent

SpecContent == ContentInit /\ [][ContentNext]_vars

(***************************************************************************)
(* The Streamlit session: calls of generate_presentation.                  *)
(***************************************************************************)

\* how many times the user presses the button in one session
MaxRuns == 2

\* line 92: the slider goes from 5 to 20
AppSlideCounts == {5, 20}

\* line 95: the options of the selectbox
TemplateOptions == {"financial_green", "corporate_blue", "modern_white"}

\* the value of datetime.now().strftime('%Y%m%d_%H%M%S') during the session
Clock == {"20240101_093000"}

\* what the search provider answers during the session
AppWorlds ==
  {[fails_on |-> {""}, data |-> [search_metadata |-> "Success"]],
   [fails_on |-> {},
    data |-> [organic_results |-> SparseResults,
              images_results  |-> <<[original |-> "https://img.example.com/1.jpg"]>>]]}

AppTopics == {"Q4 Results", " Sensex: outlook?\n", "   "}

\* lines 76-80 of content_generator.py: the market data the generator can get
MarketDataFor(args) ==
  LET symbols == extract_symbols_from_topic(args.topic)
  IN  IF args.include_real_data /\ Len(symbols) > 0
      THEN ComprehensiveAnalyses(symbols[1])
      ELSE {EmptyDict}

\* what generate_presentation_content can return to the handler
GeneratedContents(args) ==
  {GeneratedContent(w, args, md) : w \in AppWorlds, md \in MarketDataFor(args)}

\* security_manager.py lines 31-35: the variables validate_environment reads
CheckedKeyNames == <<"OPENAI_API_KEY", "GEMINI_API_KEY", "ANTHROPIC_API_KEY">>

\* os.getenv(name): the value, or None for a variable that is not set
GetEnv(env, name) == IF name \in DOMAIN env.variables THEN env.variables[name] ELSE None

\* the truth value of os.getenv(name): set and not the empty string
KeySet(env, name) == GetEnv(env, name) \notin {None, ""}

\* SecurityManager.validate_environment: the dict returned
validate_environment(env) ==
  [env_file_exists |-> env.env_file_exists,
   api_keys_configured |-> \E i \in 1..Len(CheckedKeyNames) : KeySet(env, CheckedKeyNames[i]),
   secure_setup |-> TRUE]

\* what the check finds: the setup is complete
SetupComplete(env) ==
  validate_environment(env).env_file_exists /\ validate_environment(env).api_keys_configured

\* line 82: not security_manager.validate_environment() is false, the truth
\* value of the dict returned
EnvironmentCheckPasses(env) == NonEmpty(validate_environment(env))

\* line 121 without the test of the stripped topic
TriggerOnAnyTopic(generate_btn, t, state) ==
  generate_btn /\ ~GetOr(state, "generating", FALSE)

\* line 121: generate_btn and topic.strip() and not st.session_state.get('generating', False)
Trigger(generate_btn, t, state) ==
  generate_btn /\ Strip(t) # "" /\ ~GetOr(state, "generating", FALSE)

\* the .env file and the variables the process can start with: a key
\* without the file, the file with an empty key, the file with a key
Environments ==
  {[env_file_exists |-> FALSE, variables |-> [GEMINI_API_KEY |-> "AIza-key"]],
   [env_file_exists |-> TRUE,  variables |-> [OPENAI_API_KEY |-> "", SERPAPI_API_KEY |-> "serp-key"]],
   [env_file_exists |-> TRUE,  variables |-> [GEMINI_API_KEY |-> "AIza-key"]]}

\* the page of a run that stops at line 85
EnvironmentErrorRun == [rendered |-> "environment_error"]

\* the page of a run that renders the widgets and reads them
PageRun(generate_btn, t) == [rendered |-> "page", generate_btn |-> generate_btn, topic |-> t]

AppInit ==
  /\ MaskIdle
  /\ DeckIdle
  /\ environment \in Environments
  /\ last_run = NoRun
  /\ session_state = EmptyDict
  /\ output_files = {}
  /\ user_topics = AppTopics
  /\ AppCallIdle
  /\ app_runs = 0
  /\ topic = ""
  /\ TopicIdle
  /\ IndexIdle
  /\ ContentIdle

\* line 121 and line 182: the button is pressed with a non-blank topic while
\* no generation is running; the handler sets the flag
CallGenerate ==
  /\ app_pc = "idle"
  /\ app_runs < MaxRuns
  /\ EnvironmentCheckPasses(environment)
  /\ \E t \in user_topics, n \in AppSlideCounts, k \in TemplateOptions, d \in BOOLEAN,
        generate_btn \in BOOLEAN :
       /\ Trigger(generate_btn, t, session_state)
       /\ last_run' = PageRun(generate_btn, t)
       /\ app_args' = [topic |-> t, slide_count |-> n, include_real_data |-> d,
                       template_key |-> k]
  /\ session_state' = Put(session_state, "generating", TRUE)
  /\ stored_at_call' = Stored(session_state)
  /\ app_pc' = "content"
  /\ app_exit' = "none"
  /\ app_runs' = app_runs + 1
  /\ UNCHANGED <<maskVars, deckVars, topicVars, indexVars, contentVars, environment, app_content,
                 ppt_bytes, filename, output_files, user_topics>>

\* lines 72-121: a script run in which no generation starts: the run stops at
\* the environment error, or the widgets are read and the trigger is false
RunWithoutGeneration ==
  /\ app_pc = "idle"
  /\ IF ~EnvironmentCheckPasses(environment)
     THEN last_run' = EnvironmentErrorRun
     ELSE \E t \in user_topics, generate_btn \in BOOLEAN :
            /\ ~Trigger(generate_btn, t, session_state)
            /\ last_run' = PageRun(generate_btn, t)
  /\ UNCHANGED <<maskVars, deckVars, topicVars, indexVars, contentVars, environment, session_state,
                 app_pc, app_args, app_content, ppt_bytes, filename, output_files, user_topics,
                 app_runs, stored_at_call, app_exit>>

\* lines 192-204: the content is generated; an empty content ends the call
GenerateContent ==
  /\ app_pc = "content"
  /\ \/ \E c \in GeneratedContents(GeneratorArgs(app_args)) \cup {EmptyDict} :
          /\ app_content' = c
          /\ IF ~NonEmpty(c)
             THEN app_pc' = "finally" /\ app_exit' = "no_content"
             ELSE app_pc' = "ppt" /\ UNCHANGED app_exit
     \/ /\ app_pc' = "except"
        /\ UNCHANGED <<app_content, app_exit>>
  /\ UNCHANGED <<maskVars, deckVars, topicVars, indexVars, contentVars, environment, last_run, session_state, app_args, ppt_bytes,
                 filename, output_files, user_topics, app_runs, stored_at_call>>

\* lines 211-219: the deck is built; empty bytes end the call
CreatePpt ==
  /\ app_pc = "ppt"
  /\ \E failed \in DownloadFailures :
       LET built == create_presentation(app_content, FormatTemplate(app_args.template_key),
                                        failed)
       IN  \/ /\ built.raised = ""
              /\ \E bytes \in {built.bytes, <<>>} :
                   /\ ppt_bytes' = bytes
                   /\ IF Len(bytes) = 0
                      THEN app_pc' = "finally" /\ app_exit' = "no_bytes"
                      ELSE app_pc' = "save" /\ UNCHANGED app_exit
           \/ /\ app_pc' = "except"
              /\ UNCHANGED <<ppt_bytes, app_exit>>
  /\ UNCHANGED <<maskVars, deckVars, topicVars, indexVars, contentVars, environment, last_run, session_state, app_args, app_content,
                 filename, output_files, user_topics, app_runs, stored_at_call>>

\* lines 222-224: the file name is built and the bytes are written to the
\* output directory; open() or write() can raise
SavePpt ==
  /\ app_pc = "save"
  /\ \E now \in Clock :
       /\ filename' = Filename(app_args.topic, now)
       /\ \/ /\ output_files' = output_files \cup {OutputPath(filename')}
             /\ app_pc' = "store"
          \/ /\ app_pc' = "except"
             /\ UNCHANGED output_files
  /\ UNCHANGED <<maskVars, deckVars, topicVars, indexVars, contentVars, environment, last_run, session_state, app_args, app_content,
                 ppt_bytes, user_topics, app_runs, stored_at_call, app_exit>>

\* lines 231-240: the result is stored and the script is rerun
StoreResult ==
  /\ app_pc = "store"
  /\ session_state' = Put(session_state, "ppt_result",
                          PptResult(OutputPath(filename), app_content))
  /\ app_pc' = "finally"
  /\ app_exit' = "rerun"
  /\ UNCHANGED <<maskVars, deckVars, topicVars, indexVars, contentVars, environment, last_run, app_args, app_content, ppt_bytes,
                 filename, output_files, user_topics, app_runs, stored_at_call>>

\* lines 242-244: the exception is reported
HandleException ==
  /\ app_pc = "except"
  /\ app_pc' = "finally"
  /\ app_exit' = "exception"
  /\ UNCHANGED <<maskVars, deckVars, topicVars, indexVars, contentVars, environment, last_run, session_state, app_args, app_content,
                 ppt_bytes, filename, output_files, user_topics, app_runs, stored_at_call>>

\* lines 246-249: the flag is reset on every way out, and the call returns
Finally ==
  /\ app_pc = "finally"
  /\ session_state' = AfterFinally(session_state)
  /\ app_pc' = "idle"
  /\ app_args' = NoAppArgs
  /\ app_content' = EmptyDict
  /\ ppt_bytes' = <<>>
  /\ filename' = ""
  /\ stored_at_call' = EmptyDict
  /\ app_exit' = "none"
  /\ UNCHANGED <<maskVars, deckVars, topicVars, indexVars, contentVars, environment, last_run, output_files, user_topics, app_runs>>

AppNext ==
  CallGenerate \/ RunWithoutGeneration \/ GenerateContent \/ CreatePpt \/ SavePpt \/ StoreResult \/ HandleException
    \/ Finally

SpecApp == AppInit /\ [][AppNext]_vars

(***************************************************************************)
(* The file name of the deck: generate_presentation from line 222 on, for  *)
(* every short topic over the characters the sanitizer treats.             *)
(***************************************************************************)

\* the longest topic enumerated
MaxTopicLen == 2

\* the characters the chain removes or replaces, a tab, a letter and the underscore
TopicCharacters ==
  {"\n", "\r", " ", "/", "\\", ":", "*", "?", "\"", "<", ">", "|", "\t", "a", "_"}

\* the strings over TopicCharacters of length n or less
RECURSIVE TopicsUpTo(_)
TopicsUpTo(n) ==
  IF n = 0 THEN {""}
  ELSE LET shorter == TopicsUpTo(n - 1)
       IN  shorter \cup {t \o c : t \in shorter, c \in TopicCharacters}

\* longer topics, with the treated characters between other characters
LongTopics ==
  {"Q4 2024: profit/loss?", "  a b\tc  ", "a\nb\r\nc", "C:\\decks\\q4|<\"A*\">",
   "\ta\t b \n", "__a__"}

FilenameTopics == TopicsUpTo(MaxTopicLen) \cup LongTopics

\* the handler has built the deck for a non-blank topic and is at line 222
FilenameInit ==
  /\ MaskIdle
  /\ DeckIdle
  /\ user_topics \in {{t} : t \in {x \in FilenameTopics : Strip(x) # ""}}
  /\ app_args \in [topic : user_topics, slide_count : {5}, include_real_data : {FALSE},
                    template_key : {"financial_green"}]
  /\ app_content = GeneratedContent([fails_on |-> {""}, data |-> [search_metadata |-> "Success"]],
                                    GeneratorArgs(app_args), EmptyDict)
  /\ ppt_bytes = create_presentation(app_content, FormatTemplate(app_args.template_key), {}).bytes
  /\ app_pc = "save"
  /\ filename = ""
  /\ session_state = [generating |-> TRUE]
  /\ environment = [env_file_exists |-> TRUE, variables |-> [SERPAPI_API_KEY |-> "serp-key"]]
  /\ last_run = PageRun(TRUE, app_args.topic)
  /\ stored_at_call = EmptyDict
  /\ app_exit = "none"
  /\ output_files = {}
  /\ app_runs = 1
  /\ topic = ""
  /\ TopicIdle
  /\ IndexIdle
  /\ ContentIdle

FilenameNext == SavePpt \/ StoreResult \/ HandleException \/ Finally

SpecFilename == FilenameInit /\ [][FilenameNext]_vars

(***************************************************************************)
(* create_presentation, for content produced by                            *)
(* generate_presentation_content and every template of self.templates.     *)
(***************************************************************************)

DeckTopics == {"Q4 Results", "Sensex outlook"}

DeckSlideCounts == {1, 5, 20}

\* the arguments of the calls of generate_presentation_content whose content
\* is passed on
DeckContentArgs ==
  [topic : DeckTopics,
   presentation_type : {"quarterly_analysis", "investment_proposal"},
   target_audience : {"Executive Leadership"},
   slide_count : DeckSlideCounts,
   include_real_data : {FALSE},
   content_provider : ContentProviders]

\* what generate_presentation_content returns for these arguments
DeckContents ==
  {IF a.content_provider = "SerpAPI"
   THEN GeneratedContent(w, a, EmptyDict)
   ELSE get_fallback_content(a.topic, a.presentation_type, a.target_audience, a.slide_count) :
     a \in DeckContentArgs, w \in AppWorlds}

DeckInit ==
  /\ MaskIdle
  /\ deck_content \in DeckContents
  /\ deck_template \in TemplateNames
  /\ deck_downloads \in DownloadFailures
  /\ deck_pc = "title"
  /\ prs = <<>>
  /\ deck_out = NoDeckResult
  /\ topic = ""
  /\ TopicIdle
  /\ IndexIdle
  /\ ContentIdle
  /\ AppIdle

\* lines 85-93: the scheme is looked up and the title slide is added
CreateTitleSlide ==
  /\ deck_pc = "title"
  /\ LET made == create_title_slide(deck_content, ColorsOf(deck_template))
     IN  IF made.missing # ""
         THEN /\ deck_pc' = "raised"
              /\ deck_out' = KeyError(made.missing)
              /\ UNCHANGED prs
         ELSE /\ prs' = Append(prs, made.slide)
              /\ deck_pc' = "agenda"
              /\ UNCHANGED deck_out
  /\ UNCHANGED <<maskVars, topicVars, indexVars, contentVars, appVars, deck_content, deck_template, deck_downloads>>

\* lines 95-96: the agenda slide is added
CreateAgendaSlide ==
  /\ deck_pc = "agenda"
  /\ LET made == create_agenda_slide(deck_content, ColorsOf(deck_template))
     IN  IF made.missing # ""
         THEN /\ deck_pc' = "raised"
              /\ deck_out' = KeyError(made.missing)
              /\ UNCHANGED prs
         ELSE /\ prs' = Append(prs, made.slide)
              /\ deck_pc' = "slides"
              /\ UNCHANGED deck_out
  /\ UNCHANGED <<maskVars, topicVars, indexVars, contentVars, appVars, deck_content, deck_template, deck_downloads>>

\* lines 98-99: one pass of the loop over content["slides"]
CreateContentSlide ==
  /\ deck_pc = "slides"
  /\ Len(prs) - 2 < Len(GetOr(deck_content, "slides", <<>>))
  /\ LET made == create_content_slide(GetOr(deck_content, "slides", <<>>)[Len(prs) - 1],
                                      ColorsOf(deck_template),
                                      (Len(prs) - 1) \in deck_downloads)
     IN  IF made.missing # "" \/ made.raised # ""
         THEN /\ deck_pc' = "raised"
              /\ deck_out' = IF made.missing # "" THEN KeyError(made.missing)
                                                  ELSE Exception(made.raised)
              /\ UNCHANGED prs
         ELSE /\ prs' = Append(prs, made.slide)
              /\ UNCHANGED <<deck_pc, deck_out>>
  /\ UNCHANGED <<maskVars, topicVars, indexVars, contentVars, appVars, deck_content, deck_template, deck_downloads>>

\* lines 101-107: the deck is saved to bytes and returned
SaveDeck ==
  /\ deck_pc = "slides"
  /\ Len(prs) - 2 = Len(GetOr(deck_content, "slides", <<>>))
  /\ deck_out' = Returned(prs)
  /\ deck_pc' = "done"
  /\ UNCHANGED <<maskVars, topicVars, indexVars, contentVars, appVars, deck_content, deck_template, deck_downloads, prs>>

DeckNext == CreateTitleSlide \/ CreateAgendaSlide \/ CreateContentSlide \/ SaveDeck

SpecDeck == DeckInit /\ [][DeckNext]_vars

(***************************************************************************)
(* mask_api_key(api_key) for keys of every length up to MaxKeyLen.         *)
(***************************************************************************)

MaxKeyLen == 12

\* texts whose prefixes are the keys
KeyTexts ==
  {"sk-proj-A1b2C3d4E5f6", "AIzaSyD-9tr3X_q0LmNw", "0123456789abcdefghij", "aaaaaaaaaaaaaaaaaaaa",
   "abcd...wxyz-abcd...w"}

\* None, the empty string and every prefix of a text up to MaxKeyLen characters
ApiKeys ==
  {<<>>} \cup {<<SubSeq(t, 1, n)>> : t \in KeyTexts, n \in 0..MaxKeyLen}

MaskInit ==
  /\ api_key \in ApiKeys
  /\ masked = <<>>
  /\ topic = ""
  /\ TopicIdle
  /\ IndexIdle
  /\ ContentIdle
  /\ AppIdle
  /\ DeckIdle

\* lines 51-59: the call returns
MaskApiKey ==
  /\ masked = <<>>
  /\ masked' = <<mask_api_key(api_key)>>
  /\ UNCHANGED <<topicVars, indexVars, contentVars, appVars, deckVars, api_key>>

MaskNext == MaskApiKey

SpecMask == MaskInit /\ [][MaskNext]_vars

(***************************************************************************)
(* Properties of the topic classifier.                                     *)
(***************************************************************************)

Types == {"index", "sector", "stock", "commodity", "theme", "general", "invalid"}

TopicLower == Lower(topic)

\* the condition of each of the five checks, stated without their order
MatchesIndex(t) ==
  \E i \in 1..Len(market_symbols) :
    Contains(t, market_symbols[i][1]) \/ Contains(t, Replace(market_symbols[i][1], "_", " "))

MatchesSector(t) ==
  \E i \in 1..Len(sector_keywords) :
    \E j \in 1..Len(sector_keywords[i][2]) : Contains(t, sector_keywords[i][2][j])

MatchesStock(t) ==
  /\ \E i \in 1..Len(stock_indicators) : Contains(t, stock_indicators[i])
  /\ \E i \in 1..Len(stock_databases) :
       \/ Contains(t, stock_names[i].company_name)
       \/ Contains(t, stock_names[i].symbol_lower)

MatchesCommodity(t) ==
  /\ \E i \in 1..Len(commodity_keywords) : Contains(t, commodity_keywords[i])
  /\ \E k \in commodity_keys : Contains(t, Replace(k, "_", " "))

MatchesTheme(t) ==
  \E i \in 1..Len(sector_themes) :
    \E j \in 1..Len(sector_themes[i][2]) : Contains(t, sector_themes[i][2][j])

FirstMatchingCheck(t) ==
  IF MatchesIndex(t) THEN "index"
  ELSE IF MatchesSector(t) THEN "sector"
  ELSE IF MatchesStock(t) THEN "stock"
  ELSE IF MatchesCommodity(t) THEN "commodity"
  ELSE IF MatchesTheme(t) THEN "theme"
  ELSE "general"

\* C1: a topic that passes the finance-keyword gate is given the category of
\* the first check that matches, in the order index, sector, stock, commodity,
\* theme; "general" only when none of the five matches.
C1_FirstMatchWins ==
  (gca_pc # "call" /\ analysis_type.type # "invalid")
    => analysis_type.type = FirstMatchingCheck(TopicLower)

\* a topic that matches an index name and a sector keyword, classified index
C1_Witness ==
  /\ gca_pc = "parsed"
  /\ MatchesIndex(TopicLower)
  /\ MatchesSector(TopicLower)
  /\ analysis_type.type = "index"

\* every keyword the finance-only validation looks for
AllFinanceKeywords ==
  {finance_keywords[i] : i \in 1..Len(finance_keywords)}
    \cup {extra_finance_keywords[i] : i \in 1..Len(extra_finance_keywords)}

\* C2: the result type is one of the seven categories, and it is "invalid"
\* exactly when no keyword of the expanded finance keyword list is a substring
\* of the lower-cased topic.
C2_TypeEnumerated ==
  gca_pc # "call" =>
    /\ analysis_type.type \in Types
    /\ (analysis_type.type = "invalid")
         <=> (\A k \in AllFinanceKeywords : ~Contains(TopicLower, k))

\* a topic without any finance keyword, classified invalid
C2_Witness ==
  /\ gca_pc = "parsed"
  /\ analysis_type.type = "invalid"
  /\ \A k \in AllFinanceKeywords : ~Contains(TopicLower, k)

\* the number N of a 'last|over|past N year(s)' phrase clamped to [1, 10],
\* 3 when the topic has no such phrase
ClampedYears(t) ==
  LET m == YearsMatch(t)
      n == IF m # 0 THEN ParseInt(YearsGroup(t, m)) ELSE 3
  IN  IF n < 1 THEN 1 ELSE IF n > 10 THEN 10 ELSE n

\* C3: for every topic not classified invalid, 'years' lies in [1, 10]: the
\* number of the lookback phrase clamped to that interval, 3 without a phrase.
C3_YearsClamped ==
  (gca_pc # "call" /\ analysis_type.type # "invalid") =>
    /\ analysis_type.years \in 1..10
    /\ analysis_type.years = ClampedYears(TopicLower)

\* the futures symbol of a commodity key
FuturesSymbol(k) ==
  CASE k = "gold" -> "GC=F" [] k = "silver" -> "SI=F" [] k = "crude_oil" -> "CL=F"
    [] k = "natural_gas" -> "NG=F" [] k = "copper" -> "HG=F"

\* C4: a finance-related topic that names a commodity is classified
\* 'commodity' with that commodity's futures symbol and is dispatched to the
\* commodity analysis.
C4_CommodityClassified ==
  \A k \in commodity_keys :
    ( /\ gca_pc = "dispatched"
      /\ analysis_type.type # "invalid"
      /\ Contains(TopicLower, Replace(k, "_", " "))
      /\ \A o \in commodity_keys \ {k} : ~Contains(TopicLower, Replace(o, "_", " ")) )
    => /\ analysis_type.type = "commodity"
       /\ analysis_type.symbol = FuturesSymbol(k)
       /\ routine = "_analyze_commodity"

\* what the code does instead: no topic is ever classified 'commodity'
CommodityNeverReturned ==
  /\ analysis_type.type # "commodity"
  /\ routine # "_analyze_commodity"

(***************************************************************************)
(* Properties of _analyze_index.                                           *)
(***************************************************************************)

RequiredKeys ==
  {"topic", "analysis_type", "symbol", "current_data", "historical_performance",
   "risk_metrics", "technical_indicators", "market_comparison", "key_insights",
   "forecast_data"}

Fetches == {i \in 1..Len(calls) : calls[i].kind = "fetch"}

\* C7: _analyze_index never raises, and the analysis it returns contains all
\* of the keys topic, analysis_type, symbol, current_data,
\* historical_performance, risk_metrics, technical_indicators,
\* market_comparison, key_insights and forecast_data, whatever the provider
\* does on each attempt.
C7_NeverRaisesAllKeys ==
  /\ ai_pc # "raised"
  /\ ai_pc = "done" => RequiredKeys \subseteq DOMAIN ai_result

\* a return after attempts of both kinds: one with enough rows, one without
C7_Witness ==
  /\ ai_pc = "done"
  /\ \E i \in Fetches : calls[i].enough
  /\ \E i \in Fetches : ~calls[i].enough

\* C8: the fallback is returned only when every attempted fetch raised or
\* returned fewer than 30 rows; if some attempt returns a history of at least
\* 30 rows the analysis returned is computed from it, with the symbol whose
\* fetch succeeded.
C8_FallbackOnlyWhenAllFailed ==
  ai_pc = "done" =>
    /\ ai_via = "fallback" => \A i \in Fetches : ~calls[i].enough
    /\ (\E i \in Fetches : calls[i].enough) =>
         /\ ai_via = "history"
         /\ \E i \in Fetches : calls[i].enough /\ ai_result.symbol = calls[i].sym

\* C9: every analysis returned by _analyze_index carries a 'data_quality'
\* indicator whose value is 'high' or 'medium'.
C9_DataQualityPresent ==
  ai_pc = "done" =>
    /\ "data_quality" \in DOMAIN ai_result
    /\ ai_result.data_quality \in {"high", "medium"}

AlwaysFallback == ai_pc = "done" => ai_via = "fallback"

(***************************************************************************)
(* Properties of generate_presentation_content.                            *)
(***************************************************************************)

KnownPresentationTypes == {financial_templates[i][1] : i \in 1..Len(financial_templates)}

TitlesOf(name) ==
  financial_templates[CHOOSE i \in 1..Len(financial_templates) :
                        financial_templates[i][1] = name][2]

\* the titles of the template a presentation type selects
SelectedTitles(presentation_type) ==
  IF presentation_type \in KnownPresentationTypes
  THEN TitlesOf(presentation_type)
  ELSE TitlesOf("quarterly_analysis")

\* C5: the returned 'slides' list has exactly min(slide_count, number of
\* titles of the selected template) entries, an unknown presentation type
\* selecting quarterly_analysis; the slides are numbered 1..n consecutively
\* and carry the template's titles in template order.
C5_SlideCountAndOrder ==
  gp_pc = "done" =>
    LET titles == SelectedTitles(gp_args.presentation_type)
        n      == Min(gp_args.slide_count, Len(titles))
    IN  /\ Len(content.slides) = n
        /\ \A i \in 1..n :
             /\ content.slides[i].slide_number = i
             /\ content.slides[i].title = titles[i]

\* a deck asked with more slides than the template has, for a presentation
\* type without a template, built on the search path
C5_Witness ==
  /\ gp_pc = "done"
  /\ gp_args.content_provider = "SerpAPI"
  /\ gp_args.presentation_type \notin KnownPresentationTypes
  /\ gp_args.slide_count > Len(TitlesOf("quarterly_analysis"))
  /\ Len(content.slides) = Len(TitlesOf("quarterly_analysis"))
  /\ content.slides[2].title = "Financial Performance Overview"

\* C6: every slide of the returned content has a bullet list of at least 4
\* and at most 6 entries, for every content provider, include_real_data
\* setting, search outcome and market-data result.
C6_BulletsFourToSix ==
  gp_pc = "done" =>
    \A i \in 1..Len(content.slides) :
      Len(content.slides[i].content) >= 4 /\ Len(content.slides[i].content) <= 6

\* what the code does: the bound holds on the search path, and the static
\* content of every other provider has three bullets per slide
BulletsByProvider ==
  gp_pc = "done" =>
    \A i \in 1..Len(content.slides) :
      IF gp_args.content_provider = "SerpAPI"
      THEN Len(content.slides[i].content) \in 4..6
      ELSE Len(content.slides[i].content) = 3

\* the fetches of round a
FetchesOfRound(a) == {i \in Fetches : calls[i].attempt = a}

C11_Bounded ==
  /\ Cardinality(Fetches) <= 4
  /\ \A i \in Fetches : calls[i].attempt \in {0, 1}
  /\ \A a \in {0, 1} :
       /\ Cardinality(FetchesOfRound(a)) <= 2
       /\ \A i \in FetchesOfRound(a) :
            (\A j \in FetchesOfRound(a) : i <= j) => calls[i].sym = ai_symbol
  /\ (ai_pc = "done" /\ ai_via # "history") =>
       /\ ai_via = "fallback"
       /\ \A a \in {0, 1} : FetchesOfRound(a) # {}
       /\ ai_result.symbol = ai_symbol

\* every step makes one more call (a fetch or the sleep) or returns
C11_Progress ==
  \/ Len(calls') = Len(calls) + 1 /\ Len(calls') <= 5
  \/ ai_pc # "done" /\ ai_pc' = "done"

\* C11: _analyze_index terminates after a fixed number of attempts: at most 2
\* rounds, at most 2 symbols per round with the requested symbol first, at
\* most 4 ticker attempts in total, and after the last failed attempt the
\* fallback analysis is returned.
C11_TerminatesWithinFourAttempts ==
  /\ []C11_Bounded
  /\ [](ai_pc = "done" \/ ENABLED IndexNext)
  /\ [][C11_Progress]_vars

\* a return of the fallback after four failed attempts
C11_Witness ==
  /\ ai_pc = "done"
  /\ ai_via = "fallback"
  /\ Cardinality(Fetches) = 4

Sleeps == {i \in 1..Len(calls) : calls[i].kind = "sleep"}

\* some attempt of the first round returned an analysis
FirstRoundReturned ==
  /\ ai_pc = "done"
  /\ ai_via = "history"
  /\ \A i \in Fetches : calls[i].attempt = 0

\* C12: a backoff sleep happens only between the rounds: exactly one sleep
\* occurs if and only if every attempt of the first round failed, after the
\* last attempt of round 1 and before the first attempt of round 2; no sleep
\* precedes the first attempt or follows the final round, and every sleep is
\* at most 2 seconds.
C12_SleepOnlyBetweenRounds ==
  /\ Cardinality(Sleeps) <= 1
  /\ \A i \in Sleeps :
       /\ calls[i].ms <= 2000
       /\ i = Len(SymbolsPerRound(ai_symbol)) + 1
       /\ \A j \in Fetches : (j < i) <=> (calls[j].attempt = 0)
       /\ \A j \in Fetches : (j > i) <=> (calls[j].attempt = 1)
  /\ ai_pc = "done" =>
       /\ calls[Len(calls)].kind = "fetch"
       /\ (Cardinality(Sleeps) = 1) <=> ~FirstRoundReturned

\* a return after both rounds, with the one sleep between them
C12_Witness ==
  /\ ai_pc = "done"
  /\ Cardinality(Sleeps) = 1
  /\ \E i \in Sleeps : calls[i - 1].kind = "fetch" /\ calls[i + 1].kind = "fetch"
  /\ \E i \in Sleeps : calls[i].ms = 1000

\* C13: for every index symbol that has an entry in alternative_symbols, when
\* the fetch for the requested symbol fails, a fetch with an alternative
\* symbol different from the requested one is attempted before the fallback
\* analysis is returned.
C13_AlternativeSymbolTried ==
  (ai_pc = "done" /\ ai_via = "fallback" /\ Len(AlternativesOf(ai_symbol)) > 0) =>
    \E i \in Fetches : calls[i].sym # ai_symbol

\* what the code does: a different symbol is tried exactly when the first
\* alternative listed for the requested symbol is not that symbol itself
DifferentSymbolTriedIffListedFirst ==
  (ai_pc = "done" /\ ai_via = "fallback") =>
    ((\E i \in Fetches : calls[i].sym # ai_symbol)
       <=> (Len(AlternativesOf(ai_symbol)) > 0 /\ AlternativesOf(ai_symbol)[1] # ai_symbol))

IsSearchRequest(r) == r.kind = "search"

IsImageRequest(r) == r.kind = "images"

\* the search request made for slide i (the first search is the one on the topic)
SlideSearch(i) == SelectSeq(requests, IsSearchRequest)[i + 1]

\* the image request made for slide i
SlideImageSearch(i) == SelectSeq(requests, IsImageRequest)[i]

\* a bullet that is not taken from a search result
IsPaddingBullet(b) ==
  \/ StartsWith(b, "* Comprehensive ")
  \/ StartsWith(b, "* Key performance indicators for ")
  \/ StartsWith(b, "* Strategic overview of ")
  \/ StartsWith(b, "* Industry insights for ")
  \/ StartsWith(b, "* Additional insight on ")

\* C14: a failure of a web-search or image-search call never aborts content
\* generation with provider 'SerpAPI': all min(slide_count, template length)
\* slides are still returned; a slide whose search failed has padded bullets,
\* and a slide whose image search failed has image_url None.
C14_SearchFailuresTolerated ==
  (gp_pc = "done" /\ gp_args.content_provider = "SerpAPI") =>
    /\ Len(content.slides)
         = Min(gp_args.slide_count, Len(SelectedTitles(gp_args.presentation_type)))
    /\ \A i \in 1..Len(content.slides) :
         LET slide == content.slides[i]
         IN  /\ RequestRaises(world, SlideSearch(i).q) =>
                  /\ Len(slide.content) >= 4
                  /\ \A k \in 1..Len(slide.content) : IsPaddingBullet(slide.content[k])
             /\ RequestRaises(world, SlideImageSearch(i).q) =>
                  slide.visual_suggestion.image_url = None

\* a full deck returned although every request failed
C14_Witness ==
  /\ gp_pc = "done"
  /\ gp_args.content_provider = "SerpAPI"
  /\ Len(content.slides) = 9
  /\ \A i \in 1..Len(requests) :
       requests[i].kind \in {"search", "images"} => RequestRaises(world, requests[i].q)
  /\ \A i \in 1..9 : content.slides[i].visual_suggestion.image_url = None

\* _analyze_index has returned the analysis of _get_complete_fallback_index_analysis
FallbackReturned == ai_pc = "done" /\ ai_via = "fallback"

\* C15: in every analysis produced by _get_complete_fallback_index_analysis,
\* volatility lies in [10, 35], rsi in [30, 70], max_drawdown in [5, 45]
\* (percent), and 52_week_low <= current_price <= 52_week_high.
C15_FallbackRanges ==
  FallbackReturned =>
    /\ ai_result.risk_metrics.volatility >= 1000
    /\ ai_result.risk_metrics.volatility <= 3500
    /\ ai_result.technical_indicators.rsi >= 3000
    /\ ai_result.technical_indicators.rsi <= 7000
    /\ ai_result.risk_metrics.max_drawdown >= 500
    /\ ai_result.risk_metrics.max_drawdown <= 4500
    /\ ai_result.current_data.week_52_low <= ai_result.current_data.current_price
    /\ ai_result.current_data.current_price <= ai_result.current_data.week_52_high

\* a fallback analysis at the upper ends of volatility, rsi and drawdown, with
\* the narrowest 52-week band
C15_Witness ==
  /\ FallbackReturned
  /\ ai_result.risk_metrics.volatility = 3500
  /\ ai_result.technical_indicators.rsi = 7000
  /\ ai_result.risk_metrics.max_drawdown = 4500
  /\ ai_result.current_data.week_52_low * 100 = ai_result.current_data.current_price * 95
  /\ ai_result.current_data.week_52_high * 100 = ai_result.current_data.current_price * 105

\* C16: in every fallback index analysis the trend is 'Bullish' exactly when
\* the fabricated current_price is greater than the fabricated sma_20 and
\* 'Bearish' otherwise, whatever sma_50, volatility and drawdown are.
C16_TrendFromPriceAndSma20 ==
  FallbackReturned =>
    LET price == ai_result.current_data.current_price
        ti    == ai_result.technical_indicators
    IN  /\ ti.trend \in {"Bullish", "Bearish"}
        /\ (ti.trend = "Bullish") <=> (price > ti.sma_20)

\* a bearish fallback analysis whose price equals its sma_20 and lies above
\* its sma_50
C16_Witness ==
  /\ FallbackReturned
  /\ ai_result.technical_indicators.trend = "Bearish"
  /\ ai_result.current_data.current_price = ai_result.technical_indicators.sma_20
  /\ ai_result.current_data.current_price > ai_result.technical_indicators.sma_50

(***************************************************************************)
(* Properties of generate_presentation.                                    *)
(***************************************************************************)

\* the ways out of generate_presentation without a result
FailedExits == {"no_content", "no_bytes", "exception"}

\* a call on a way out without a result holds the result it began with
C17_FailureKeepsResult ==
  app_pc = "finally" /\ app_exit \in FailedExits => Stored(session_state) = stored_at_call

\* the stored result changes only in the step after the save, to a result
\* whose file is in the output directory
C17_WrittenAfterSave ==
  Stored(session_state') # Stored(session_state) =>
    /\ app_pc = "store"
    /\ OutputPath(filename) \in output_files
    /\ session_state'.ppt_result.ppt_file = OutputPath(filename)

\* C17: session_state['ppt_result'] holds the last generated result until it
\* is overwritten: a call of generate_presentation that fails (empty content,
\* empty deck bytes or an exception) leaves it as it was before the call, and
\* it is written only after the deck file has been saved
C17_ResultKeptUntilOverwritten ==
  []C17_FailureKeepsResult /\ [][C17_WrittenAfterSave]_vars

\* a call fails in a session that holds the result of an earlier call
C17_Witness ==
  /\ app_pc = "finally"
  /\ app_exit \in FailedExits
  /\ "ppt_result" \in DOMAIN stored_at_call
  /\ Stored(session_state) = stored_at_call

\* the characters the file name must not keep from the topic
ForbiddenCharacters == {" ", "\n", "\r", "/", "\\", ":", "*", "?", "\"", "<", ">", "|"}

\* the file name without the time stamp and the extension
SanitizedPart(name, now) == SubSeq(name, 1, Len(name) - Len("_" \o now \o ".pptx"))

\* C18: the file name is '<sanitized topic>_<timestamp>.pptx'; the sanitized
\* part holds no space, newline, carriage return, slash, backslash, colon,
\* asterisk, question mark, double quote, angle bracket or bar; and
\* sanitizing the sanitized part again changes nothing
C18_FilenameSanitized ==
  filename # "" =>
    \E now \in Clock :
      LET part == SanitizedPart(filename, now)
      IN  /\ filename = part \o "_" \o now \o ".pptx"
          /\ part = SanitizeTopic(app_args.topic)
          /\ \A c \in ForbiddenCharacters : ~Contains(part, c)
          /\ SanitizeTopic(part) = part

\* a file name is built for a topic that holds a forbidden character and is
\* changed by the sanitizer
C18_Witness ==
  /\ app_pc = "store"
  /\ filename # ""
  /\ \E c \in ForbiddenCharacters : Contains(app_args.topic, c)
  /\ Strip(app_args.topic) # app_args.topic
  /\ OutputPath(filename) \in output_files

(***************************************************************************)
(* The services generate_presentation_content calls.                       *)
(***************************************************************************)

\* the requests generate_presentation_content makes go to the web search,
\* the image search or the market-data service
OnlySearchAndMarketData ==
  \A i \in 1..Len(requests) : requests[i].kind \in {"search", "images", "market"}

C20_EveryTemplateBuilds ==
  /\ deck_pc # "raised"
  /\ deck_pc = "done" => deck_out.raised = "" /\ Len(deck_out.bytes) > 0

\* what the code does: the call raises KeyError('primary_color') on the
\* title slide for colorful_modern and for no other template, and returns
\* the two leading slides and one slide per content slide otherwise
RaisesForColorfulModernOnly ==
  /\ deck_pc = "raised" => deck_template = "colorful_modern" /\ deck_out = KeyError("primary_color")
  /\ deck_template = "colorful_modern" => deck_pc \in {"title", "raised"}
  /\ deck_pc = "done" =>
        /\ deck_out = create_presentation(deck_content, deck_template, deck_downloads)
        /\ Len(deck_out.bytes) = 2 + Len(deck_content.slides)
  /\ deck_pc = "raised" => deck_out = create_presentation(deck_content, deck_template, deck_downloads)

(***************************************************************************)
(* Properties of main.                                                     *)
(***************************************************************************)

\* C21: whenever the environment check finds the setup incomplete (no API
\* key configured or no .env file), main shows the environment error and
\* returns before the topic input and the button are rendered, so that no
\* generation is started
C21_IncompleteSetupStopsMain ==
  ~SetupComplete(environment) =>
    /\ last_run.rendered \in {"none", "environment_error"}
    /\ app_pc = "idle"
    /\ app_runs = 0

\* what the code does: the dict returned by the check is never empty, so no
\* run stops at the environment error, whatever the check finds
EnvironmentErrorNeverShown ==
  /\ EnvironmentCheckPasses(environment)
  /\ last_run.rendered # "environment_error"

\* a step of main that starts generate_presentation
StartsGeneration == app_pc = "idle" /\ app_pc' # "idle"

\* a generation starts only in a run whose button was pressed, whose topic is
\* not blank and in which the flag was not set, and it gets the topic of that run
C22_StartedOnlyOnTrigger ==
  StartsGeneration =>
    /\ last_run'.rendered = "page"
    /\ last_run'.generate_btn
    /\ Strip(last_run'.topic) # ""
    /\ ~GetOr(session_state, "generating", FALSE)
    /\ app_args'.topic = last_run'.topic

\* a run with a blank topic starts nothing and leaves the stored result alone
C22_BlankTopicIgnored ==
  app_pc = "idle" /\ last_run'.rendered = "page" /\ Strip(last_run'.topic) = "" =>
    /\ app_pc' = "idle"
    /\ session_state' = session_state
    /\ output_files' = output_files

Generating == GetOr(session_state, "generating", FALSE)

\* C23: session_state['generating'] is true only while generate_presentation
\* is executing: it is set on entry and false again after every way the call
\* ends, so it is false whenever main evaluates the trigger
C23_FlagOnlyWhileGenerating ==
  /\ app_pc = "idle" => ~Generating
  /\ app_pc # "idle" => Generating

\* a call has ended without a result and the flag is false again
C23_Witness ==
  /\ app_pc = "idle"
  /\ app_runs > 0
  /\ "generating" \in DOMAIN session_state
  /\ ~session_state.generating
  /\ "ppt_result" \notin DOMAIN session_state

\* the analysis_type the result carries for each classification of the topic
LabelOfClassification(classified) ==
  CASE classified.type = "index"     -> "Index Analysis"
    [] classified.type = "sector"    -> "Sector Analysis"
    [] classified.type = "stock"     -> "Individual Stock Analysis"
    [] classified.type = "commodity" -> "Commodity Analysis"
    [] classified.type = "theme"     -> "Thematic Investment Analysis"
    [] classified.type = "general"   -> "General Market Analysis"
    [] classified.type = "invalid"   -> "General Market Analysis"

\* C24: get_comprehensive_analysis returns a dict and never an exception, and
\* the analysis_type of the dict is the one that belongs to the
\* classification of the topic, whether the routine's own block succeeded or
\* raised
C24_TypeFollowsClassification ==
  gca_pc = "returned" =>
    /\ "raised" \notin DOMAIN gca_result
    /\ gca_result.analysis_type = LabelOfClassification(analysis_type)

\* a stock topic whose routine raised inside is answered by the stock fallback
C24_Witness ==
  /\ gca_pc = "returned"
  /\ analysis_type.type = "stock"
  /\ gca_result.via = "fallback"
  /\ gca_result.analysis_type = "Individual Stock Analysis"

\* the stock tickers among common_symbols
StockTickers == {"AAPL", "GOOGL", "MSFT", "TSLA"}

\* C25: once the market-data service has been queried with a stock ticker
\* found in the topic, the market data held for the slides is an
\* 'Individual Stock Analysis' whose symbol is that ticker
C25_TickerGetsStockAnalysis ==
  \A i \in 1..Len(requests) :
    (requests[i].kind = "market" /\ requests[i].q \in StockTickers) =>
      /\ market_data.analysis_type = "Individual Stock Analysis"
      /\ "symbol" \in DOMAIN market_data
      /\ market_data.symbol = requests[i].q

\* what the service answers instead: a bare ticker names no finance keyword,
\* is classified invalid and gets the general market analysis
TickerGetsGeneralAnalysis ==
  /\ \A ticker \in StockTickers :
       /\ ParseTopic(ticker).type = "invalid"
       /\ \A body_raises \in BOOLEAN :
            get_comprehensive_analysis(ticker, AnalysisYears, body_raises).analysis_type
              = "General Market Analysis"
  /\ \A i \in 1..Len(requests) :
       (requests[i].kind = "market" /\ requests[i].q \in StockTickers) =>
         market_data.analysis_type = "General Market Analysis"

\* C26: the period_analyzed of the result is the years argument of the call,
\* whatever lookback the classification extracted from the topic
C26_PeriodIsYearsArgument ==
  gca_pc = "returned" =>
    gca_result.period_analyzed = ToString(gca_years) \o " years"

\* a topic asking for the last 5 years, analysed over the default 3 years
C26_Witness ==
  /\ gca_pc = "returned"
  /\ "years" \in DOMAIN analysis_type
  /\ analysis_type.years = 5
  /\ gca_years = AnalysisYears
  /\ gca_result.period_analyzed = "3 years"

\* the bullets extract_bullet_points returned for the slide at position i:
\* line 85 searches the topic and the title, line 87 extracts from the answer
ExtractedBullets(i) ==
  extract_bullet_points(
    search_financial_topic(world, gp_args.topic \o " " \o slides[i].title, 5),
    slides[i].title)

\* C27: for every slide built, extract_bullet_points returned at least 3 and
\* at most 6 bullets
C27_ThreeToSixBullets ==
  \A i \in 1..Len(slides) :
    Len(ExtractedBullets(i)) >= 3 /\ Len(ExtractedBullets(i)) <= 6

\* what the code does: between 1 and 4 bullets, and fewer than 3 only for a
\* title without 'analysis', 'performance' and 'overview', for which line 64
\* leaves the loop after one generic bullet
ExtractedBulletCounts ==
  \A i \in 1..Len(slides) :
    LET n == Len(ExtractedBullets(i))
        t == Lower(slides[i].title)
    IN  /\ n >= 1 /\ n <= 4
        /\ n < 3 => ~(Contains(t, "analysis") \/ Contains(t, "performance")
                        \/ Contains(t, "overview"))

\* the deck is the title slide, the agenda slide and one content slide per
\* entry of content["slides"] in list order, the agenda numbering the titles
\* of the first eight entries from 1
DeckMatchesContent(deck, slides_data) ==
  LET n == Len(slides_data)
  IN  /\ Len(deck) = n + 2
      /\ deck[1].layout = "title"
      /\ deck[2].layout = "agenda"
      /\ Len(deck[2].items) = (IF n <= 8 THEN n ELSE 8)
      /\ \A i \in 1..Len(deck[2].items) :
           deck[2].items[i] = ToString(i) \o ". " \o slides_data[i].title
      /\ \A i \in 1..n :
           /\ deck[i + 2].layout = "content"
           /\ deck[i + 2].title = slides_data[i].title

\* C28: create_presentation ends with a deck of n + 2 slides in the order
\* title, agenda, content slides in list order, whose agenda lists the first
\* min(n, 8) titles numbered from 1, whichever image downloads fail
C28_DeckOfEveryContent ==
  /\ deck_pc # "raised"
  /\ deck_pc = "done" =>
       /\ deck_out.raised = ""
       /\ DeckMatchesContent(deck_out.bytes, deck_content.slides)

\* what the code does: for the five other templates the deck is as stated
\* and a failed download leaves only the picture out; for colorful_modern
\* the call raises on the title slide and there is no deck
DeckOfOtherTemplates ==
  /\ deck_pc = "raised" => deck_template = "colorful_modern" /\ prs = <<>>
  /\ deck_template # "colorful_modern" => deck_pc # "raised"
  /\ deck_pc = "done" =>
       /\ deck_out.raised = ""
       /\ DeckMatchesContent(deck_out.bytes, deck_content.slides)
       /\ \A i \in 1..Len(deck_content.slides) :
            i \in deck_downloads => deck_out.bytes[i + 2].pictures = <<>>

\* a deck in which the picture of the first slide failed and a later one
\* was added
DeckWithSkippedImage ==
  /\ deck_pc = "done"
  /\ deck_downloads = {1}
  /\ Len(deck_out.bytes) > AgendaLimit + 2
  /\ deck_out.bytes[3].pictures = <<>>
  /\ deck_out.bytes[4].pictures # <<>>

\* the positions of the market-data requests of the call
MarketRequests == {i \in 1..Len(requests) : requests[i].kind = "market"}

\* the upper-cased topic names one of the six symbols
TopicNamesSymbol ==
  \E s \in {"NIFTY", "SENSEX", "AAPL", "GOOGL", "MSFT", "TSLA"} :
    Contains(Upper(gp_args.topic), s)

\* C29: one call queries the market-data service at most once, and only with
\* include_real_data set and a topic naming one of the six symbols;
\* otherwise there is no such request and no slide has data points
C29_MarketDataOnlyOnDemand ==
  /\ Cardinality(MarketRequests) <= 1
  /\ MarketRequests # {} => gp_args.include_real_data /\ TopicNamesSymbol
  /\ ~(gp_args.include_real_data /\ TopicNamesSymbol) =>
       /\ MarketRequests = {}
       /\ \A i \in 1..Len(slides) : slides[i].data_points = <<>>
       /\ gp_pc = "done" =>
            \A i \in 1..Len(content.slides) : content.slides[i].data_points = <<>>

\* a finished call that asked the service once, for the ticker in its topic
C29_Witness ==
  /\ gp_pc = "done"
  /\ Cardinality(MarketRequests) = 1
  /\ gp_args.include_real_data
  /\ gp_args.topic = "TSLA earnings"
  /\ Len(content.slides) > 1

(***************************************************************************)
(* Properties of mask_api_key.                                             *)
(***************************************************************************)

\* every character of the key can be read from the text: the part before
\* the dots followed by the part after them is the key
DisclosesKey(key, text) ==
  /\ Len(text) >= 3
  /\ \E k \in 0..(Len(text) - 3) :
       /\ SubSeq(text, k + 1, k + 3) = "..."
       /\ key = SubSeq(text, 1, k) \o SubSeq(text, k + 4, Len(text))

\* C30: mask_api_key returns 'Not configured' for None and the empty key,
\* 'Invalid key' for a key shorter than 8 characters, and for every key of
\* 8 or more characters its first 4 and last 4 characters around three dots,
\* a text from which the complete key cannot be read
C30_NeverDisclosesKey ==
  masked # <<>> =>
    IF api_key = <<>> THEN masked[1] = "Not configured"
    ELSE IF Len(api_key[1]) = 0 THEN masked[1] = "Not configured"
    ELSE IF Len(api_key[1]) < 8 THEN masked[1] = "Invalid key"
    ELSE /\ masked[1] = SubSeq(api_key[1], 1, 4) \o "..."
                          \o SubSeq(api_key[1], Len(api_key[1]) - 3, Len(api_key[1]))
         /\ ~DisclosesKey(api_key[1], masked[1])

\* what the code does: the three kinds of text are as stated, and the text
\* hides Len(key) - 8 characters, which is none for a key of exactly 8
DisclosesEightCharacterKeys ==
  masked # <<>> =>
    IF api_key = <<>> THEN masked[1] = "Not configured"
    ELSE IF Len(api_key[1]) = 0 THEN masked[1] = "Not configured"
    ELSE IF Len(api_key[1]) < 8 THEN masked[1] = "Invalid key"
    ELSE /\ Len(masked[1]) = 11
         /\ DisclosesKey(api_key[1], masked[1]) <=> Len(api_key[1]) = 8

====
